---- MODULE Spec2Model ----
(***************************************************************************)
(* Model of the fediverse crawler's orchestration layer: the SQLite store  *)
(* (instances and the per-state side tables), the state-machine mutators   *)
(* mark_alive / mark_dead / mark_moved / add_instance / reschedule, the    *)
(* checker handle around one probe, and the coordinator loop.              *)
(*                                                                         *)
(* Time is counted in units of six hours.  Timestamps and row ids are both *)
(* SQLite integers; the clock starts at Now0, well above every row id and  *)
(* more than a week above it, as a Unix timestamp is.                      *)
(***************************************************************************)
EXTENDS Integers, Sequences, FiniteSets, TLC

VARIABLES
    instances,          \* table instances: a sequence, the index is the row id
    dying_state_data,   \* table dying_state_data: a set of rows
    moving_state_data,  \* table moving_state_data: a set of rows
    moved_state_data,   \* table moved_state_data: a set of rows
    now,                \* the wall clock
    last,               \* history: the store call that ran last, and its result
    run,                \* history: the verdict that has been repeated, and how often
    nops,               \* history: the steps counted against a specification's limit
    pc,                 \* the coordinator's position in main
    picked,             \* the coordinator's (instance, check_time)
    time_to_generate_a_list, \* the coordinator's next list-generation instant
    terminate,          \* the flag SIGINT and SIGTERM set
    tasks,              \* the pool: what each slot is running
    pointer,            \* the checker: the NodeInfo pointer document it fetched
    nodeinfo_url,       \* the checker: what it picked from the pointer, once it has
    dispatched,         \* history: the check time of the pick that was dispatched last
    child,              \* run_checker: the subprocess of each worker and its reaping
    retry               \* the busy-retry helper: its position and the calls it made

store == <<instances, dying_state_data, moving_state_data, moved_state_data>>
orch == <<pc, picked, time_to_generate_a_list, terminate, tasks>>
checker == <<pointer, nodeinfo_url>>
helpers == <<child, retry>>
vars == <<instances, dying_state_data, moving_state_data, moved_state_data,
          now, last, run, nops, pc, picked, time_to_generate_a_list, terminate,
          tasks, pointer, nodeinfo_url, dispatched, child, retry>>

----------------------------------------------------------------------------
(* Bounds of the model. *)

\* failed_checks_count and redirects_count are not incremented beyond this
MaxCount == 8
\* the clock visits Now0 + k for k in 0..MaxSteps, in units of six hours,
\* and the instant one week after Now0
MaxSteps == 1
\* the specification of free interleavings runs at most this many steps
MaxOps == 4
\* the pool runs at most this many tasks at once
MaxTasks == 2
\* the coordinator dispatches at most this many probes
MaxDispatch == 2

----------------------------------------------------------------------------
(* Values. *)

NULL == 0

Seed == "mastodon.social"
HostNames == {Seed, "z.example", "w.example"}

InstanceState == {"Discovered", "Alive", "Dying", "Dead", "Moving", "Moved"}

\* the threshold both counters are compared with
Threshold == 7

SixHours == 1
Day == 4 * SixHours
Week == 7 * Day

Now0 == Week + Week
TimePoints ==
    {Now0 + k * SixHours : k \in 0..MaxSteps}
        \cup {Now0 + Week}

----------------------------------------------------------------------------
(* Time policy. Each function is a random draw from an interval that       *)
(* starts at t. A drawn instant is counted in whole units, rounded up; the *)
(* model draws the near and the far end of the day and the far end of the  *)
(* week.                                                                   *)

rand_datetime_today(t) == {t + SixHours}
rand_datetime_daily(t) == {t + SixHours, t + Day}
rand_datetime_weekly(t) == {t + Week}

----------------------------------------------------------------------------
(* The store as one value, and row helpers. *)

DB == [instances |-> instances,
       dying_state_data |-> dying_state_data,
       moving_state_data |-> moving_state_data,
       moved_state_data |-> moved_state_data]

Commit(db) ==
    /\ instances' = db.instances
    /\ dying_state_data' = db.dying_state_data
    /\ moving_state_data' = db.moving_state_data
    /\ moved_state_data' = db.moved_state_data

\* SELECT id FROM instances WHERE hostname = ?1
Known(insts, host) == \E i \in DOMAIN insts : insts[i].hostname = host
IdOf(insts, host) == CHOOSE i \in DOMAIN insts : insts[i].hostname = host

\* rows of a side table that belong to an instance
RowsOf(table, id) == {r \in table : r.instance = id}
HasRow(table, id) == RowsOf(table, id) # {}
RowOf(table, id) == CHOOSE r \in table : r.instance = id
\* DELETE FROM <table> WHERE instance = ?1
DeleteRows(table, id) == {r \in table : r.instance # id}

\* a transaction that committed, and one that was rolled back
Ok(db) == [ok |-> TRUE, db |-> db]
Err(db) == [ok |-> FALSE, db |-> db]

\* INSERT OR REPLACE: a known host gets a fresh row in place of its own
InsertOrIgnore_OrReplace(insts, host, via, next) ==
    LET fresh == [hostname |-> host,
                  state |-> "Discovered",
                  discovered_via |-> via,
                  last_check_datetime |-> NULL,
                  next_check_datetime |-> next,
                  cadence |-> "today",
                  check_started |-> NULL]
    IN IF Known(insts, host)
       THEN [insts EXCEPT ![IdOf(insts, host)] = fresh]
       ELSE Append(insts, fresh)

\* INSERT OR IGNORE INTO instances(hostname, discovered_via, next_check_datetime)
InsertOrIgnore(insts, host, via, next) ==
    IF Known(insts, host) THEN insts
    ELSE Append(insts, [hostname |-> host,
                        state |-> "Discovered",
                        discovered_via |-> via,
                        last_check_datetime |-> NULL,
                        next_check_datetime |-> next,
                        cadence |-> "today",
                        check_started |-> NULL])

\* an update that schedules the next check at the time of this one
SetChecked_NextIsNow(insts, id, state, t, next, cadence) ==
    [insts EXCEPT ![id].state = state,
                  ![id].last_check_datetime = t,
                  ![id].next_check_datetime = t,
                  ![id].cadence = cadence]

\* UPDATE instances SET state, last_check_datetime, next_check_datetime WHERE id
SetChecked(insts, id, state, t, next, cadence) ==
    [insts EXCEPT ![id].state = state,
                  ![id].last_check_datetime = t,
                  ![id].next_check_datetime = next,
                  ![id].cadence = cadence]

\* an update that schedules the next check and forgets last_check_datetime
SetRechecked_KeepsLastCheck(insts, id, t, next, cadence) ==
    [insts EXCEPT ![id].next_check_datetime = next,
                  ![id].cadence = cadence]

\* UPDATE instances SET last_check_datetime, next_check_datetime WHERE id
SetRechecked(insts, id, t, next, cadence) ==
    SetChecked(insts, id, insts[id].state, t, next, cadence)

----------------------------------------------------------------------------
(* Pieces of the state machine. *)

\* a first failure that is not counted
NewDyingRow_Uncounted(id, t) ==
    [instance |-> id, dying_since |-> t, failed_checks_count |-> 0]

\* INSERT INTO dying_state_data(instance, dying_since) VALUES (?1, ?2);
\* failed_checks_count takes its default, 1
NewDyingRow(id, t) ==
    [instance |-> id, dying_since |-> t, failed_checks_count |-> 1]

\* UPDATE dying_state_data SET failed_checks_count = failed_checks_count + 1
IncrementFailed(table, id) ==
    {IF r.instance = id
        THEN [r EXCEPT !.failed_checks_count = @ + 1]
        ELSE r : r \in table}

\* a promotion to Dead that waits for the week to be over
DeadPromotes_AfterAWeek(count, since, t) == count > Threshold /\ since < t - Week

\* if checks_count > 7 && since > week_ago
DeadPromotes(count, since, t) == count > Threshold /\ since > t - Week

\* INSERT INTO moving_state_data(instance, moving_since, moving_to)
\* VALUES (?1, ?2, ?3) with params![instance_id, to_instance_id, now]:
\* the second parameter is the target's id and the third is the time, so
\* moving_since receives the id and moving_to receives the time.
NewMovingRow(id, to_id, t) ==
    [instance |-> id, moving_since |-> to_id, redirects_count |-> 1,
     moving_to |-> t]

\* SELECT count(id) FROM moving_state_data WHERE instance = ?1 AND moving_to = ?2
IsMovingToThatHostAlready(table, id, to_id) ==
    Cardinality({r \in table : r.instance = id /\ r.moving_to = to_id}) > 0

\* UPDATE moving_state_data SET redirects_count = redirects_count + 1
IncrementRedirects(table, id) ==
    {IF r.instance = id
        THEN [r EXCEPT !.redirects_count = @ + 1]
        ELSE r : r \in table}

\* a promotion to Moved one redirect early
MovedPromotes_OneEarly(count, since, t) == count >= Threshold /\ since > t - Week

\* if redirects_count > 7 && since > week_ago
MovedPromotes(count, since, t) == count > Threshold /\ since > t - Week

\* INSERT INTO moved_state_data(instance, moved_to) VALUES (?1, ?2)
NewMovedRow(id, to_id) == [instance |-> id, moved_to |-> to_id]

\* UPDATE moving_state_data SET moving_since = ?1, redirects_count = 1,
\* moving_to = ?2 WHERE instance = ?3
RestartMoving(table, id, to_id, t) ==
    {IF r.instance = id
        THEN [r EXCEPT !.moving_since = t, !.redirects_count = 1,
                       !.moving_to = to_id]
        ELSE r : r \in table}

\* mark_dead that leaves the moved_state_data row behind
ClearForDying_KeepsMoved(db, id) ==
    [db EXCEPT !.moving_state_data = DeleteRows(@, id)]

\* mark_dead on the way into Dying: DELETE FROM moving_state_data and
\* DELETE FROM moved_state_data WHERE instance = ?1
ClearForDying(db, id) ==
    [db EXCEPT !.moving_state_data = DeleteRows(@, id),
               !.moved_state_data = DeleteRows(@, id)]

----------------------------------------------------------------------------
(* The mutators. Each is one transaction: it returns the store it commits, *)
(* or, when a statement fails, the store it was given (the transaction is  *)
(* dropped without a commit). t is the time of the call; today, daily and  *)
(* weekly are the draws of the time policy at t.                           *)

\* mark_alive that leaves the side-table rows behind
mark_alive_KeepsRows(db, host, t, daily) ==
    IF ~Known(db.instances, host) THEN Err(db)
    ELSE LET id == IdOf(db.instances, host) IN
         Ok([db EXCEPT
               !.instances = SetChecked(@, id, "Alive", t, daily, "daily")])

mark_alive(db, host, t, daily) ==
    IF ~Known(db.instances, host) THEN Err(db)
    ELSE LET id == IdOf(db.instances, host) IN
         Ok([db EXCEPT
               !.dying_state_data = DeleteRows(@, id),
               !.moving_state_data = DeleteRows(@, id),
               !.moved_state_data = DeleteRows(@, id),
               !.instances = SetChecked(@, id, "Alive", t, daily, "daily")])

mark_dead(db, host, t, daily, weekly) ==
    IF ~Known(db.instances, host) THEN Err(db)
    ELSE
    LET id == IdOf(db.instances, host)
        state == db.instances[id].state
    IN
    CASE state \in {"Discovered", "Alive", "Moving", "Moved"} ->
           IF HasRow(db.dying_state_data, id) THEN Err(db)
           ELSE Ok([ClearForDying(db, id) EXCEPT
                  !.dying_state_data = @ \cup {NewDyingRow(id, t)},
                  !.instances = SetChecked(@, id, "Dying", t, daily, "daily")])
      [] state = "Dying" ->
           IF ~HasRow(db.dying_state_data, id) THEN Err(db)
           ELSE
           LET counted == IncrementFailed(db.dying_state_data, id)
               row == RowOf(counted, id)
           IN
           IF DeadPromotes(row.failed_checks_count, row.dying_since, t)
           THEN Ok([db EXCEPT
                  !.dying_state_data = DeleteRows(counted, id),
                  !.instances = SetChecked(@, id, "Dead", t, weekly, "weekly")])
           ELSE Ok([db EXCEPT
                  !.dying_state_data = counted,
                  !.instances = SetRechecked(@, id, t, daily, "daily")])
      [] state = "Dead" ->
           Ok([db EXCEPT
                  !.instances = SetRechecked(@, id, t, weekly, "weekly")])

mark_moved(db, host, to, t, today, daily, weekly) ==
    IF ~Known(db.instances, host) THEN Err(db)
    ELSE
    LET id == IdOf(db.instances, host)
        state == db.instances[id].state
    IN
    CASE state \in {"Discovered", "Alive", "Dying", "Dead"} ->
           LET insts == InsertOrIgnore(db.instances, to, id, today)
               to_id == IdOf(insts, to)
           IN
           IF HasRow(db.moving_state_data, id) THEN Err(db)
           ELSE Ok([db EXCEPT
                  !.dying_state_data = DeleteRows(@, id),
                  !.moving_state_data = @ \cup {NewMovingRow(id, to_id, t)},
                  !.instances = SetChecked(insts, id, "Moving", t, daily, "daily")])
      [] state = "Moving" ->
           IF ~Known(db.instances, to) THEN Err(db)
           ELSE
           LET to_id == IdOf(db.instances, to) IN
           IF IsMovingToThatHostAlready(db.moving_state_data, id, to_id)
           THEN
             LET counted == IncrementRedirects(db.moving_state_data, id)
                 row == RowOf(counted, id)
             IN
             IF MovedPromotes(row.redirects_count, row.moving_since, t)
             THEN IF HasRow(db.moved_state_data, id) THEN Err(db)
                  ELSE Ok([db EXCEPT
                     !.moving_state_data = DeleteRows(counted, id),
                     !.moved_state_data = @ \cup {NewMovedRow(id, to_id)},
                     !.instances = SetChecked(@, id, "Moved", t, weekly, "weekly")])
             ELSE Ok([db EXCEPT
                     !.moving_state_data = counted,
                     !.instances = SetRechecked(@, id, t, daily, "daily")])
           ELSE Ok([db EXCEPT
                     !.moving_state_data = RestartMoving(@, id, to_id, t),
                     !.instances = SetRechecked(@, id, t, daily, "daily")])
      [] state = "Moved" ->
           Ok([db EXCEPT
                  !.instances = SetRechecked(@, id, t, weekly, "weekly")])

\* add_instance that does not record who listed the peer
add_instance_WithoutSource(db, source_instance, host, today) ==
    IF ~Known(db.instances, source_instance) THEN Err(db)
    ELSE Ok([db EXCEPT
           !.instances = InsertOrIgnore(@, host, NULL, today)])

add_instance(db, source_instance, host, today) ==
    IF ~Known(db.instances, source_instance) THEN Err(db)
    ELSE Ok([db EXCEPT
           !.instances = InsertOrIgnore(@, host,
                                        IdOf(@, source_instance), today)])

\* reschedule that draws daily whatever the state
reschedule_AlwaysDaily(db, host, daily, weekly) ==
    IF ~Known(db.instances, host) THEN Err(db)
    ELSE
    LET id == IdOf(db.instances, host) IN
    Ok([db EXCEPT
          !.instances = [@ EXCEPT
               ![id].next_check_datetime = daily,
               ![id].cadence = "daily"]])

\* the cadence of a state: weekly for Dead and Moved, daily for the others
reschedule(db, host, daily, weekly) ==
    IF ~Known(db.instances, host) THEN Err(db)
    ELSE
    LET id == IdOf(db.instances, host)
        slow == db.instances[id].state \in {"Dead", "Moved"}
    IN
    Ok([db EXCEPT
          !.instances = [@ EXCEPT
               ![id].next_check_datetime = IF slow THEN weekly ELSE daily,
               ![id].cadence = IF slow THEN "weekly" ELSE "daily"]])

----------------------------------------------------------------------------
(* Construction: db::init on an empty database file creates the tables and *)
(* inserts the bootstrap host; every other column takes its default.       *)

EmptyDB ==
    [instances |-> << >>,
     dying_state_data |-> {},
     moving_state_data |-> {},
     moved_state_data |-> {}]

\* INSERT OR IGNORE INTO instances(hostname) VALUES ("mastodon.social")
init(db, t) ==
    IF Known(db.instances, Seed) THEN db
    ELSE [db EXCEPT !.instances =
            Append(@, [hostname |-> Seed,
                       state |-> "Discovered",
                       discovered_via |-> NULL,
                       last_check_datetime |-> NULL,
                       next_check_datetime |-> t,
                       cadence |-> "default",
                       check_started |-> NULL])]

NoCall == [op |-> "none", host |-> Seed, to |-> Seed, ok |-> TRUE, pre |-> "none"]

NoRun == [op |-> "none", host |-> Seed, to |-> Seed, from |-> "none",
          start |-> NULL, times |-> 0]

\* a worker of the pool without a task
Idle == [kind |-> "idle", host |-> Seed, pc |-> "idle", lines |-> << >>,
         out |-> << >>, calls |-> << >>, result |-> "ok"]

\* a pointer document without links
NoPointer == [links |-> << >>]

\* no subprocess has been spawned, and no retry helper has been called
NoChild == [pc |-> "none", proc |-> "none", result |-> "none", killed |-> FALSE,
            logged |-> 0, failed |-> 0, returned |-> "none"]
NoChildren == [i \in 1..MaxTasks |-> NoChild]
NoRetry == [helper |-> "none", pc |-> "none", calls |-> 0, returned |-> "none"]

\* the coordinator before main has run; no checker has fetched a pointer
InitOrch ==
    /\ pointer = NoPointer
    /\ nodeinfo_url = << >>
    /\ dispatched = NULL
    /\ child = NoChildren
    /\ retry = NoRetry
    /\ pc = "off"
    /\ picked = [host |-> Seed, check_time |-> NULL]
    /\ time_to_generate_a_list = NULL
    /\ terminate = FALSE
    /\ tasks = [i \in 1..MaxTasks |-> Idle]

\* the store right after db::init on a new database file
Init ==
    /\ now = Now0
    /\ instances = init(EmptyDB, Now0).instances
    /\ dying_state_data = init(EmptyDB, Now0).dying_state_data
    /\ moving_state_data = init(EmptyDB, Now0).moving_state_data
    /\ moved_state_data = init(EmptyDB, Now0).moved_state_data
    /\ last = NoCall
    /\ run = NoRun
    /\ nops = 0
    /\ InitOrch

----------------------------------------------------------------------------
(* Actions: one store call each, at the current time. *)

StateOf(insts, host) ==
    IF Known(insts, host) THEN insts[IdOf(insts, host)].state ELSE "none"

Called(op, host, to, res) ==
    last' = [op |-> op, host |-> host, to |-> to, ok |-> res.ok,
             pre |-> StateOf(instances, host)]

\* a verdict repeated: the same successful call as the one before it, with
\* only the clock advancing in between; the count stops at RunCap
RunCap == MaxCount + 1
Repeated(op, host, to, res) ==
    run' = IF ~res.ok THEN NoRun
           ELSE IF run.op = op /\ run.host = host /\ run.to = to
           THEN [run EXCEPT !.times = IF @ < RunCap THEN @ + 1 ELSE @]
           ELSE [op |-> op, host |-> host, to |-> to,
                 from |-> StateOf(instances, host), start |-> now, times |-> 1]

\* the model stops counting at MaxCount
CountersBounded(db) ==
    /\ \A r \in db.dying_state_data : r.failed_checks_count <= MaxCount
    /\ \A r \in db.moving_state_data : r.redirects_count <= MaxCount

MarkAlive(h) ==
    \E daily \in rand_datetime_daily(now) :
      LET res == mark_alive(DB, h, now, daily) IN
      /\ Commit(res.db)
      /\ Called("mark_alive", h, h, res)
      /\ run' = NoRun
      /\ UNCHANGED <<now, orch>>

MarkDead(h) ==
    \E daily \in rand_datetime_daily(now), weekly \in rand_datetime_weekly(now) :
      LET res == mark_dead(DB, h, now, daily, weekly) IN
      /\ CountersBounded(res.db)
      /\ Commit(res.db)
      /\ Called("mark_dead", h, h, res)
      /\ Repeated("mark_dead", h, h, res)
      /\ UNCHANGED <<now, orch>>

MarkMoved(h, to) ==
    \E today \in rand_datetime_today(now), daily \in rand_datetime_daily(now),
       weekly \in rand_datetime_weekly(now) :
      LET res == mark_moved(DB, h, to, now, today, daily, weekly) IN
      /\ CountersBounded(res.db)
      /\ Commit(res.db)
      /\ Called("mark_moved", h, to, res)
      /\ Repeated("mark_moved", h, to, res)
      /\ UNCHANGED <<now, orch>>

AddInstance(source, peer) ==
    \E today \in rand_datetime_today(now) :
      LET res == add_instance(DB, source, peer, today) IN
      /\ Commit(res.db)
      /\ Called("add_instance", source, peer, res)
      /\ run' = NoRun
      /\ UNCHANGED <<now, orch>>

Reschedule(h) ==
    \E daily \in rand_datetime_daily(now), weekly \in rand_datetime_weekly(now) :
      LET res == reschedule(DB, h, daily, weekly) IN
      /\ Commit(res.db)
      /\ Called("reschedule", h, h, res)
      /\ run' = NoRun
      /\ UNCHANGED <<now, orch>>

\* time passes
Tick ==
    /\ \E t \in TimePoints : t > now /\ now' = t
    /\ last' = [NoCall EXCEPT !.op = "tick"]
    /\ UNCHANGED <<store, run, orch>>

----------------------------------------------------------------------------
(* Spec: the mutators on any hosts in any order, with the clock advancing  *)
(* in between; at most MaxOps steps.                                       *)

Counted == nops < MaxOps /\ nops' = nops + 1

Next ==
    \/ Counted /\ \E h \in HostNames : MarkAlive(h) /\ UNCHANGED <<checker, dispatched, helpers>>
    \/ Counted /\ \E h \in HostNames : MarkDead(h) /\ UNCHANGED <<checker, dispatched, helpers>>
    \/ Counted /\ \E h, to \in HostNames : MarkMoved(h, to) /\ UNCHANGED <<checker, dispatched, helpers>>
    \/ Counted /\ \E h, peer \in HostNames : AddInstance(h, peer) /\ UNCHANGED <<checker, dispatched, helpers>>
    \/ Counted /\ \E h \in HostNames : Reschedule(h) /\ UNCHANGED <<checker, dispatched, helpers>>
    \/ Counted /\ Tick /\ UNCHANGED <<checker, dispatched, helpers>>

Spec == Init /\ [][Next]_vars

(* SpecHost: every verdict of the bootstrap host, without a limit on the   *)
(* number of calls; the other hosts enter as redirect targets and peers.   *)

NextHost ==
    \/ MarkAlive(Seed) /\ UNCHANGED nops /\ UNCHANGED <<checker, dispatched, helpers>>
    \/ MarkDead(Seed) /\ UNCHANGED nops /\ UNCHANGED <<checker, dispatched, helpers>>
    \/ \E to \in HostNames : MarkMoved(Seed, to) /\ UNCHANGED nops /\ UNCHANGED <<checker, dispatched, helpers>>
    \/ \E peer \in HostNames : AddInstance(Seed, peer) /\ UNCHANGED nops /\ UNCHANGED <<checker, dispatched, helpers>>
    \/ Reschedule(Seed) /\ UNCHANGED nops /\ UNCHANGED <<checker, dispatched, helpers>>
    \/ Tick /\ UNCHANGED nops /\ UNCHANGED <<checker, dispatched, helpers>>

SpecHost == Init /\ [][NextHost]_vars

----------------------------------------------------------------------------
(* Store calls of the coordinator and of the checker handle. *)

\* a reschedule of every instance, missed or not
reschedule_missed_checks_OfAll(db, t, today) ==
    Ok([db EXCEPT !.instances =
          [i \in DOMAIN @ |->
              [@[i] EXCEPT !.next_check_datetime = today, !.cadence = "today"]]])

\* UPDATE instances SET next_check_datetime = today WHERE next_check_datetime < now
reschedule_missed_checks(db, t, today) ==
    Ok([db EXCEPT !.instances =
          [i \in DOMAIN @ |->
              IF @[i].next_check_datetime < t
              THEN [@[i] EXCEPT !.next_check_datetime = today,
                                !.cadence = "today"]
              ELSE @[i]]])

\* a pick among the rows that are not marked as being checked only
pick_next_instance_Unchecked(insts) ==
    {[host |-> insts[i].hostname, check_time |-> insts[i].next_check_datetime] :
       i \in {j \in DOMAIN insts :
                /\ insts[j].check_started = NULL
                /\ \A k \in DOMAIN insts :
                      insts[k].check_started = NULL =>
                         insts[j].next_check_datetime <= insts[k].next_check_datetime}}

\* SELECT hostname, next_check_datetime FROM instances
\* ORDER BY next_check_datetime ASC LIMIT 1: any of the rows with the least
\* next_check_datetime; check_started is not looked at
pick_next_instance(insts) ==
    {[host |-> insts[i].hostname, check_time |-> insts[i].next_check_datetime] :
       i \in {j \in DOMAIN insts :
                \A k \in DOMAIN insts :
                   insts[j].next_check_datetime <= insts[k].next_check_datetime}}

\* UPDATE instances SET check_started = CURRENT_TIMESTAMP WHERE hostname = ?1
start_checking(db, host, t) ==
    Ok([db EXCEPT !.instances =
          [i \in DOMAIN @ |->
              IF @[i].hostname = host
              THEN [@[i] EXCEPT !.check_started = t] ELSE @[i]]])

\* a release that leaves the mark
finish_checking_KeepsMark(db, host) == Ok(db)

\* UPDATE instances SET check_started = NULL WHERE hostname = ?1
finish_checking(db, host) ==
    Ok([db EXCEPT !.instances =
          [i \in DOMAIN @ |->
              IF @[i].hostname = host
              THEN [@[i] EXCEPT !.check_started = NULL] ELSE @[i]]])

----------------------------------------------------------------------------
(* The probe's output: the lines the checker subprocess writes. *)

StateLine(state, to) == [tag |-> "state", state |-> state, host |-> to]
PeerLine(peer) == [tag |-> "peer", state |-> "none", host |-> peer]
\* a line that cannot be read or parsed, or a subprocess that cannot be spawned
BadLine == [tag |-> "error", state |-> "none", host |-> Seed]

ProbeOutputs ==
    { << >>,
      <<BadLine>>,
      <<PeerLine("z.example")>>,
      <<StateLine("alive", Seed)>>,
      <<StateLine("alive", Seed), PeerLine("z.example"), PeerLine(Seed)>>,
      <<StateLine("alive", Seed), StateLine("alive", Seed)>>,
      <<StateLine("alive", Seed), BadLine>>,
      <<StateLine("moving", "z.example")>>,
      <<StateLine("moved", "z.example")>> }

\* an end of output that is taken for an unreadable line
FirstLine_EofIsError(out) ==
    IF out = << >> THEN "error"
    ELSE IF Head(out).tag = "state" THEN Head(out).state
    ELSE Head(out).tag

\* a redirect in progress that is taken for a completed one
FirstLine_MovingIsMoved(out) ==
    IF out = << >> THEN "eof"
    ELSE IF Head(out).tag = "state"
    THEN (IF Head(out).state = "moving" THEN "moved" ELSE Head(out).state)
    ELSE Head(out).tag

\* what process_checker_response finds first: the end of the output, a line
\* it cannot use, a peer, or one of the three states
FirstLine(out) ==
    IF out = << >> THEN "eof"
    ELSE IF Head(out).tag = "state" THEN Head(out).state
    ELSE Head(out).tag

----------------------------------------------------------------------------
(* The pool's tasks. A checker task is instance_checker::run around a      *)
(* CheckerHandle: new, run, drop. Of a task the model keeps its position,  *)
(* the output of its probe (out) and what is left to read of it (lines),   *)
(* the store calls it has committed (calls) and the result it is about to  *)
(* return to the closure that the pool runs (result).                      *)

FreeSlots == {i \in 1..MaxTasks : tasks[i].kind = "idle"}
Slot(n) == CHOOSE i \in FreeSlots : Cardinality({j \in FreeSlots : j < i}) = n

CheckerTask(host) == [Idle EXCEPT !.kind = "checker", !.host = host, !.pc = "new"]
ListTask == [Idle EXCEPT !.kind = "list", !.pc = "run"]

\* a checker handle that was acquired and not yet released
InFlight(task) == task.kind = "checker" /\ task.pc \in {"run", "peers", "failed", "drop"}

\* the closure's error!("Checker error") and error!("Checker panicked")
Logged(task) == task.result \in {"err", "busy", "panic"}

\* the task moves on: call is the store call it made and res that call's
\* result, or call is "none"
TaskTo(i, position, out, lines, call, res) ==
    tasks' = [tasks EXCEPT
                ![i].pc = position,
                ![i].out = out,
                ![i].lines = lines,
                ![i].calls = IF call # "none" /\ res.ok THEN Append(@, call) ELSE @,
                ![i].result = IF position = "failed" THEN "err" ELSE "ok"]

\* a panic that ends the task where it is, without the handle's Drop
TaskPanicked_SkipsDrop(i, out) ==
    /\ tasks' = [tasks EXCEPT ![i] = [Idle EXCEPT !.result = "panic"]]
    /\ UNCHANGED <<store, last>>

\* println! panicked: the stack unwinds through the handle to catch_unwind
TaskPanicked(i, out) ==
    /\ tasks' = [tasks EXCEPT ![i].pc = "drop", ![i].out = out,
                              ![i].lines = << >>, ![i].result = "panic"]
    /\ UNCHANGED <<store, last>>

\* CheckerHandle::new
TaskNew(i) ==
    /\ tasks[i].kind = "checker" /\ tasks[i].pc = "new"
    /\ LET res == start_checking(DB, tasks[i].host, now) IN
       /\ Commit(res.db)
       /\ Called("start_checking", tasks[i].host, tasks[i].host, res)
       /\ TaskTo(i, "run", << >>, << >>, "none", res)
    /\ UNCHANGED <<now, run, nops, pc, picked, time_to_generate_a_list, terminate>>

\* run_checker and the first line in process_checker_response
TaskRunOf(i, outputs) ==
    /\ tasks[i].kind = "checker" /\ tasks[i].pc = "run"
    /\ \E out \in outputs, printed \in BOOLEAN,
          today \in rand_datetime_today(now),
          daily \in rand_datetime_daily(now),
          weekly \in rand_datetime_weekly(now) :
         LET target == tasks[i].host IN
         CASE FirstLine(out) = "eof" ->
                LET res == mark_dead(DB, target, now, daily, weekly) IN
                /\ CountersBounded(res.db)
                /\ Commit(res.db)
                /\ Called("mark_dead", target, target, res)
                /\ TaskTo(i, IF res.ok THEN "drop" ELSE "failed", out, << >>,
                          "mark_dead", res)
           [] FirstLine(out) = "error" ->
                /\ UNCHANGED <<store, last>>
                /\ TaskTo(i, "failed", out, << >>, "none", Err(DB))
           [] FirstLine(out) = "peer" ->
                LET res == mark_dead(DB, target, now, daily, weekly) IN
                /\ CountersBounded(res.db)
                /\ Commit(res.db)
                /\ Called("mark_dead", target, target, res)
                /\ TaskTo(i, "failed", out, << >>, "mark_dead", res)
           [] FirstLine(out) = "alive" ->
                LET res == mark_alive(DB, target, now, daily) IN
                /\ Commit(res.db)
                /\ Called("mark_alive", target, target, res)
                /\ TaskTo(i, IF res.ok THEN "peers" ELSE "failed", out,
                          IF res.ok THEN Tail(out) ELSE << >>,
                          "mark_alive", res)
           [] FirstLine(out) = "moving" ->
                IF ~printed THEN TaskPanicked(i, out)
                ELSE
                LET res == reschedule(DB, target, daily, weekly) IN
                /\ Commit(res.db)
                /\ Called("reschedule", target, target, res)
                /\ TaskTo(i, IF res.ok THEN "drop" ELSE "failed", out, << >>,
                          "reschedule", res)
           [] FirstLine(out) = "moved" ->
                IF ~printed THEN TaskPanicked(i, out)
                ELSE
                LET res == mark_moved(DB, target, Head(out).host, now, today,
                                      daily, weekly) IN
                /\ CountersBounded(res.db)
                /\ Commit(res.db)
                /\ Called("mark_moved", target, Head(out).host, res)
                /\ TaskTo(i, IF res.ok THEN "drop" ELSE "failed", out, << >>,
                          "mark_moved", res)
    /\ UNCHANGED <<now, run, nops, pc, picked, time_to_generate_a_list, terminate>>

TaskRun(i) == TaskRunOf(i, ProbeOutputs)

\* process_peers: the next line after state=alive
TaskPeer(i) ==
    /\ tasks[i].kind = "checker" /\ tasks[i].pc = "peers"
    /\ LET target == tasks[i].host
           lines == tasks[i].lines
       IN
       IF lines = << >>
       THEN \E printed \in BOOLEAN :
              IF ~printed THEN TaskPanicked(i, tasks[i].out)
              ELSE /\ UNCHANGED <<store, last>>
                   /\ TaskTo(i, "drop", tasks[i].out, << >>, "none", Ok(DB))
       ELSE
       CASE Head(lines).tag = "peer" ->
              \E today \in rand_datetime_today(now) :
                LET res == add_instance(DB, target, Head(lines).host, today) IN
                /\ Commit(res.db)
                /\ Called("add_instance", target, Head(lines).host, res)
                /\ TaskTo(i, IF res.ok THEN "peers" ELSE "failed", tasks[i].out,
                          IF res.ok THEN Tail(lines) ELSE << >>,
                          "add_instance", res)
         [] OTHER ->
              /\ UNCHANGED <<store, last>>
              /\ TaskTo(i, "failed", tasks[i].out, << >>, "none", Err(DB))
    /\ UNCHANGED <<now, run, nops, pc, picked, time_to_generate_a_list, terminate>>

\* check: run_checker returned an error, so reschedule on a fresh connection;
\* the error is returned only if that reschedule fails
TaskFailed(i) ==
    /\ tasks[i].kind = "checker" /\ tasks[i].pc = "failed"
    /\ \E daily \in rand_datetime_daily(now), weekly \in rand_datetime_weekly(now) :
         LET res == reschedule(DB, tasks[i].host, daily, weekly) IN
         /\ Commit(res.db)
         /\ Called("reschedule", tasks[i].host, tasks[i].host, res)
         /\ tasks' = [tasks EXCEPT
                        ![i].pc = "drop",
                        ![i].calls = IF res.ok THEN Append(@, "reschedule") ELSE @,
                        ![i].result = IF res.ok THEN "ok" ELSE "err"]
    /\ UNCHANGED <<now, run, nops, pc, picked, time_to_generate_a_list, terminate>>

\* Drop for CheckerHandle, and the task's end: last.pre keeps the result the
\* task returned
TaskDrop(i) ==
    /\ tasks[i].kind = "checker" /\ tasks[i].pc = "drop"
    /\ LET res == finish_checking(DB, tasks[i].host) IN
       /\ Commit(res.db)
       /\ last' = [op |-> "finish_checking", host |-> tasks[i].host,
                   to |-> tasks[i].host, ok |-> res.ok, pre |-> tasks[i].result]
    /\ tasks' = [tasks EXCEPT ![i] = Idle]
    /\ UNCHANGED <<now, run, nops, pc, picked, time_to_generate_a_list, terminate>>

\* the list generator ran
TaskList(i) ==
    /\ tasks[i].kind = "list"
    /\ tasks' = [tasks EXCEPT ![i] = Idle]
    /\ UNCHANGED <<store, now, last, run, nops, pc, picked,
                   time_to_generate_a_list, terminate>>

----------------------------------------------------------------------------
(* The coordinator: main. *)

\* open, busy_timeout, init, reschedule_missed_checks, the pool, the signal
\* hooks, time_to_generate_a_list
Boot ==
    /\ pc = "off"
    /\ \E today \in rand_datetime_today(now) :
         LET res == reschedule_missed_checks(init(DB, now), now, today) IN
         /\ Commit(res.db)
         /\ Called("reschedule_missed_checks", Seed, Seed, res)
    /\ time_to_generate_a_list' = now
    /\ terminate' = FALSE
    /\ pc' = "iterate"
    /\ UNCHANGED <<now, run, nops, picked, tasks>>

\* a loop that does not look at the flag
AfterIteration_IgnoresFlag == "iterate"

\* after an iteration returned Ok: the check of the terminate flag
AfterIteration == IF terminate THEN "join" ELSE "iterate"

\* the iteration up to its first sleep: the list generator, the pick, and
\* the return after three seconds when the pick is not due
\* a coordinator that leaves the instant of the next list generation alone
NextListTime_Kept(due, time, later) == time

\* time_to_generate_a_list = crate::time::in_about_six_hours()?, after the
\* list generator was given to the pool
NextListTime(due, time, later) == IF due THEN later ELSE time

\* with three and six_hours the durations of three seconds and of six hours
\* in the unit of the clock: a pick that is more than three seconds away ends
\* the iteration after a sleep of three seconds, a pick that is less away is
\* slept for ("sleeping"), and one that is due goes on to reschedule
Iteration(three, six_hours) ==
    /\ pc = "iterate"
    /\ LET list_due == time_to_generate_a_list < now IN
       /\ list_due => FreeSlots # {}
       /\ tasks' = IF list_due THEN [tasks EXCEPT ![Slot(0)] = ListTask] ELSE tasks
       /\ time_to_generate_a_list' =
             NextListTime(list_due, time_to_generate_a_list, now + six_hours)
    /\ instances # << >>
    /\ \E p \in pick_next_instance(instances) :
         LET wait == p.check_time - now IN
         /\ picked' = p
         /\ pc' = IF wait > three THEN AfterIteration
                  ELSE IF wait > 0 THEN "sleeping" ELSE "slept"
    /\ last' = [NoCall EXCEPT !.op = "pick_next_instance"]
    /\ UNCHANGED <<store, now, run, nops, terminate>>

\* in units of six hours three seconds are less than one unit of the clock
IterPick == Iteration(0, SixHours)

\* a dispatch that does not wait for the result of reschedule
Dispatched_Unchecked(pool, res, host) ==
    [pool EXCEPT ![Slot(0)] = CheckerTask(host)]

\* the ? after db::reschedule and pool.execute: the probe is given to the
\* pool only when reschedule returned Ok
Dispatched(pool, res, host) ==
    IF res.ok THEN [pool EXCEPT ![Slot(0)] = CheckerTask(host)] ELSE pool

\* the iteration after its sleep: reschedule, then the dispatch of the probe
IterDispatchWithin(max) ==
    /\ pc = "slept"
    /\ nops < max
    /\ FreeSlots # {}
    /\ \E daily \in rand_datetime_daily(now), weekly \in rand_datetime_weekly(now) :
         LET res == reschedule(DB, picked.host, daily, weekly) IN
         /\ Commit(res.db)
         /\ Called("reschedule", picked.host, picked.host, res)
         /\ tasks' = Dispatched(tasks, res, picked.host)
         /\ pc' = IF res.ok THEN AfterIteration ELSE "failed"
    /\ nops' = nops + 1
    /\ UNCHANGED <<now, run, picked, time_to_generate_a_list, terminate>>

IterDispatch == IterDispatchWithin(MaxDispatch)

\* SIGINT or SIGTERM
Signal ==
    /\ pc \in {"iterate", "slept"}
    /\ ~terminate
    /\ terminate' = TRUE
    /\ last' = [NoCall EXCEPT !.op = "signal"]
    /\ UNCHANGED <<store, now, run, nops, pc, picked, time_to_generate_a_list,
                   tasks>>

\* pool.join, and main returns Ok
Join ==
    /\ pc = "join"
    /\ \A i \in 1..MaxTasks : tasks[i].kind = "idle"
    /\ pc' = "done"
    /\ last' = [NoCall EXCEPT !.op = "join"]
    /\ UNCHANGED <<store, now, run, nops, picked, time_to_generate_a_list,
                   terminate, tasks>>

\* the process is killed, with its workers and their subprocesses; the
\* database file stays as the last commit left it, and main can start again
Killed ==
    /\ pc \notin {"off", "done"}
    /\ pc' = "off"
    /\ picked' = [host |-> Seed, check_time |-> NULL]
    /\ time_to_generate_a_list' = NULL
    /\ terminate' = FALSE
    /\ tasks' = [i \in 1..MaxTasks |-> Idle]
    /\ last' = [NoCall EXCEPT !.op = "killed"]
    /\ UNCHANGED <<store, now, run, nops>>

(* SpecOrch: the coordinator, the pool and the clock, from a new database  *)
(* file.                                                                   *)

InitOrchestrator ==
    /\ now = Now0
    /\ instances = EmptyDB.instances
    /\ dying_state_data = EmptyDB.dying_state_data
    /\ moving_state_data = EmptyDB.moving_state_data
    /\ moved_state_data = EmptyDB.moved_state_data
    /\ last = NoCall
    /\ run = NoRun
    /\ nops = 0
    /\ InitOrch

NextOrch ==
    \/ Boot /\ UNCHANGED <<checker, dispatched, helpers>>
    \/ IterPick /\ UNCHANGED <<checker, dispatched, helpers>>
    \/ IterDispatch /\ UNCHANGED <<checker, dispatched, helpers>>
    \/ Signal /\ UNCHANGED <<checker, dispatched, helpers>>
    \/ Join /\ UNCHANGED <<checker, dispatched, helpers>>
    \/ Killed /\ UNCHANGED <<checker, dispatched, helpers>>
    \/ \E i \in 1..MaxTasks : TaskNew(i) /\ UNCHANGED <<checker, dispatched, helpers>>
    \/ \E i \in 1..MaxTasks : TaskRun(i) /\ UNCHANGED <<checker, dispatched, helpers>>
    \/ \E i \in 1..MaxTasks : TaskPeer(i) /\ UNCHANGED <<checker, dispatched, helpers>>
    \/ \E i \in 1..MaxTasks : TaskFailed(i) /\ UNCHANGED <<checker, dispatched, helpers>>
    \/ \E i \in 1..MaxTasks : TaskDrop(i) /\ UNCHANGED <<checker, dispatched, helpers>>
    \/ \E i \in 1..MaxTasks : TaskList(i) /\ UNCHANGED <<checker, dispatched, helpers>>
    \/ Tick /\ UNCHANGED nops /\ UNCHANGED <<checker, dispatched, helpers>>

SpecOrch == InitOrchestrator /\ [][NextOrch]_vars

(* SpecProbe: the pool and the checker handles on the store after init,    *)
(* with the coordinator reduced to its dispatch: a probe of any known host *)
(* in any order, at most MaxDispatch probes, all within one unit of the    *)
(* clock.                                                                  *)

\* main's reschedule and pool.execute, for a host that some pick returned
ProbeDispatch(h) ==
    /\ nops < MaxDispatch
    /\ FreeSlots # {}
    /\ Known(instances, h)
    /\ \E daily \in rand_datetime_daily(now), weekly \in rand_datetime_weekly(now) :
         LET res == reschedule(DB, h, daily, weekly) IN
         /\ Commit(res.db)
         /\ Called("reschedule", h, h, res)
         /\ tasks' = [tasks EXCEPT ![Slot(0)] = CheckerTask(h)]
    /\ nops' = nops + 1
    /\ UNCHANGED <<now, run, pc, picked, time_to_generate_a_list, terminate>>

NextProbe ==
    \/ \E h \in HostNames : ProbeDispatch(h) /\ UNCHANGED <<checker, dispatched, helpers>>
    \/ \E i \in 1..MaxTasks : TaskNew(i) /\ UNCHANGED <<checker, dispatched, helpers>>
    \/ \E i \in 1..MaxTasks : TaskRun(i) /\ UNCHANGED <<checker, dispatched, helpers>>
    \/ \E i \in 1..MaxTasks : TaskPeer(i) /\ UNCHANGED <<checker, dispatched, helpers>>
    \/ \E i \in 1..MaxTasks : TaskFailed(i) /\ UNCHANGED <<checker, dispatched, helpers>>
    \/ \E i \in 1..MaxTasks : TaskDrop(i) /\ UNCHANGED <<checker, dispatched, helpers>>

SpecProbe == Init /\ [][NextProbe]_vars

----------------------------------------------------------------------------
(* Store calls that fail. Every connection writes to the same database     *)
(* file, so a call can end with SQLITE_BUSY; and a call can end with       *)
(* another error of the store (a row or a column that is not there, a      *)
(* state code that is not known).                                          *)

\* a store call of the iteration (pick_next_instance, or reschedule after
\* the sleep) ends with SQLITE_BUSY: the iteration returns the error, and
\* on_sqlite_busy_retry_indefinitely sleeps and calls the iteration again
\* without a look at the terminate flag
IterBusy ==
    /\ pc \in {"iterate", "slept"}
    /\ FreeSlots # {}
    /\ LET list_due == pc = "iterate" /\ time_to_generate_a_list < now
           pool == IF list_due THEN [tasks EXCEPT ![Slot(0)] = ListTask] ELSE tasks
       IN
       /\ tasks' = IF pc = "slept"
                   THEN Dispatched(tasks, Err(DB), picked.host) ELSE pool
       /\ time_to_generate_a_list' =
             NextListTime(list_due, time_to_generate_a_list, now + SixHours)
    /\ pc' = "iterate"
    /\ last' = [NoCall EXCEPT !.op = "busy", !.host = picked.host, !.ok = FALSE,
                              !.pre = pc]
    /\ UNCHANGED <<store, now, run, nops, picked, terminate>>

\* a store call of the iteration ends with an error that is not SQLITE_BUSY:
\* on_sqlite_busy_retry_indefinitely returns it and the ? in main's loop
\* returns it from main, past pool.join
IterError ==
    /\ pc \in {"iterate", "slept"}
    /\ pc' = "failed"
    /\ last' = [NoCall EXCEPT !.op = "error", !.host = picked.host, !.ok = FALSE,
                              !.pre = pc]
    /\ UNCHANGED <<store, now, run, nops, picked, time_to_generate_a_list,
                   terminate, tasks>>

\* a store call of a worker ends with SQLITE_BUSY. No helper retries it:
\* start_checking fails CheckerHandle::new, so there is no handle and no
\* probe; a verdict's call or add_instance fails run_checker, which check
\* answers with reschedule; reschedule in check fails the task;
\* finish_checking in Drop is logged and the mark stays
TaskBusy(i) ==
    /\ tasks[i].kind = "checker"
    /\ CASE tasks[i].pc = "new" ->
              tasks' = [tasks EXCEPT ![i] = Idle]
         [] tasks[i].pc = "run" ->
              \E out \in ProbeOutputs :
                 /\ FirstLine(out) # "error"
                 /\ tasks' = [tasks EXCEPT ![i].pc = "failed", ![i].out = out,
                                           ![i].result = "busy"]
         [] tasks[i].pc = "peers" ->
              /\ tasks[i].lines # << >> /\ Head(tasks[i].lines).tag = "peer"
              /\ tasks' = [tasks EXCEPT ![i].pc = "failed", ![i].lines = << >>,
                                        ![i].result = "busy"]
         [] tasks[i].pc = "failed" ->
              tasks' = [tasks EXCEPT ![i].pc = "drop", ![i].result = "busy"]
         [] tasks[i].pc = "drop" ->
              tasks' = [tasks EXCEPT ![i] = Idle]
    /\ last' = [op |-> "busy", host |-> tasks[i].host, to |-> tasks[i].host,
                ok |-> FALSE, pre |-> tasks[i].pc]
    /\ UNCHANGED <<store, now, run, nops, pc, picked, time_to_generate_a_list,
                   terminate>>

(* SpecFault: the coordinator and the pool within one unit of the clock,   *)
(* with store calls that fail.                                             *)

NextFault ==
    \/ Boot /\ UNCHANGED <<checker, dispatched, helpers>>
    \/ IterPick /\ UNCHANGED <<checker, dispatched, helpers>>
    \/ IterDispatch /\ UNCHANGED <<checker, dispatched, helpers>>
    \/ IterBusy /\ UNCHANGED <<checker, dispatched, helpers>>
    \/ IterError /\ UNCHANGED <<checker, dispatched, helpers>>
    \/ Signal /\ UNCHANGED <<checker, dispatched, helpers>>
    \/ Join /\ UNCHANGED <<checker, dispatched, helpers>>
    \/ \E i \in 1..MaxTasks : TaskNew(i) /\ UNCHANGED <<checker, dispatched, helpers>>
    \/ \E i \in 1..MaxTasks : TaskRun(i) /\ UNCHANGED <<checker, dispatched, helpers>>
    \/ \E i \in 1..MaxTasks : TaskPeer(i) /\ UNCHANGED <<checker, dispatched, helpers>>
    \/ \E i \in 1..MaxTasks : TaskFailed(i) /\ UNCHANGED <<checker, dispatched, helpers>>
    \/ \E i \in 1..MaxTasks : TaskDrop(i) /\ UNCHANGED <<checker, dispatched, helpers>>
    \/ \E i \in 1..MaxTasks : TaskBusy(i) /\ UNCHANGED <<checker, dispatched, helpers>>

SpecFault == InitOrchestrator /\ [][NextFault]_vars

(* SpecShutdown: the coordinator and the pool within one unit of the      *)
(* clock, as long as the process is not killed and no store call fails     *)
(* but with SQLITE_BUSY in the coordinator's iteration. The coordinator's  *)
(* thread and the pool's workers keep running and a probe ends (its HTTP   *)
(* requests time out), so a step of either that stays possible is taken;   *)
(* contention is transient, so a reschedule that is tried again and again  *)
(* goes through.                                                           *)

TaskStep(i) ==
    /\ TaskNew(i) \/ TaskRun(i) \/ TaskPeer(i) \/ TaskFailed(i) \/ TaskDrop(i)
    /\ UNCHANGED <<checker, dispatched, helpers>>

NextShutdown ==
    \/ Boot /\ UNCHANGED <<checker, dispatched, helpers>>
    \/ IterPick /\ UNCHANGED <<checker, dispatched, helpers>>
    \/ IterDispatch /\ UNCHANGED <<checker, dispatched, helpers>>
    \/ IterBusy /\ UNCHANGED <<checker, dispatched, helpers>>
    \/ Signal /\ UNCHANGED <<checker, dispatched, helpers>>
    \/ Join /\ UNCHANGED <<checker, dispatched, helpers>>
    \/ \E i \in 1..MaxTasks : TaskNew(i) /\ UNCHANGED <<checker, dispatched, helpers>>
    \/ \E i \in 1..MaxTasks : TaskRun(i) /\ UNCHANGED <<checker, dispatched, helpers>>
    \/ \E i \in 1..MaxTasks : TaskPeer(i) /\ UNCHANGED <<checker, dispatched, helpers>>
    \/ \E i \in 1..MaxTasks : TaskFailed(i) /\ UNCHANGED <<checker, dispatched, helpers>>
    \/ \E i \in 1..MaxTasks : TaskDrop(i) /\ UNCHANGED <<checker, dispatched, helpers>>

SpecShutdown ==
    /\ InitOrchestrator /\ [][NextShutdown]_vars
    /\ WF_vars(IterPick /\ UNCHANGED <<checker, dispatched, helpers>>)
    /\ SF_vars(IterDispatch /\ UNCHANGED <<checker, dispatched, helpers>>)
    /\ WF_vars(Join /\ UNCHANGED <<checker, dispatched, helpers>>)
    /\ \A i \in 1..MaxTasks : WF_vars(TaskStep(i))

(* SpecRetry: the coordinator and its probes with the clock advancing, so  *)
(* that one iteration after another dispatches, and with store errors in   *)
(* the iteration.                                                          *)

NextRetry ==
    \/ Boot /\ UNCHANGED <<checker, dispatched, helpers>>
    \/ IterPick /\ UNCHANGED <<checker, dispatched, helpers>>
    \/ IterDispatch /\ UNCHANGED <<checker, dispatched, helpers>>
    \/ IterBusy /\ UNCHANGED <<checker, dispatched, helpers>>
    \/ IterError /\ UNCHANGED <<checker, dispatched, helpers>>
    \/ Signal /\ UNCHANGED <<checker, dispatched, helpers>>
    \/ Join /\ UNCHANGED <<checker, dispatched, helpers>>
    \/ \E i \in 1..MaxTasks : TaskNew(i) /\ UNCHANGED <<checker, dispatched, helpers>>
    \/ \E i \in 1..MaxTasks : TaskRun(i) /\ UNCHANGED <<checker, dispatched, helpers>>
    \/ \E i \in 1..MaxTasks : TaskPeer(i) /\ UNCHANGED <<checker, dispatched, helpers>>
    \/ \E i \in 1..MaxTasks : TaskFailed(i) /\ UNCHANGED <<checker, dispatched, helpers>>
    \/ \E i \in 1..MaxTasks : TaskDrop(i) /\ UNCHANGED <<checker, dispatched, helpers>>
    \/ Tick /\ UNCHANGED nops /\ UNCHANGED <<checker, dispatched, helpers>>

SpecRetry == InitOrchestrator /\ [][NextRetry]_vars

(* SpecList: SpecRetry with the list generator's task running to its end.  *)

NextList ==
    \/ Boot /\ UNCHANGED <<checker, dispatched, helpers>>
    \/ IterPick /\ UNCHANGED <<checker, dispatched, helpers>>
    \/ IterDispatch /\ UNCHANGED <<checker, dispatched, helpers>>
    \/ IterBusy /\ UNCHANGED <<checker, dispatched, helpers>>
    \/ \E i \in 1..MaxTasks : TaskNew(i) /\ UNCHANGED <<checker, dispatched, helpers>>
    \/ \E i \in 1..MaxTasks : TaskRun(i) /\ UNCHANGED <<checker, dispatched, helpers>>
    \/ \E i \in 1..MaxTasks : TaskPeer(i) /\ UNCHANGED <<checker, dispatched, helpers>>
    \/ \E i \in 1..MaxTasks : TaskFailed(i) /\ UNCHANGED <<checker, dispatched, helpers>>
    \/ \E i \in 1..MaxTasks : TaskDrop(i) /\ UNCHANGED <<checker, dispatched, helpers>>
    \/ \E i \in 1..MaxTasks : TaskList(i) /\ UNCHANGED <<checker, dispatched, helpers>>
    \/ Tick /\ UNCHANGED nops /\ UNCHANGED <<checker, dispatched, helpers>>

SpecList == InitOrchestrator /\ [][NextList]_vars

(* SpecLive: the coordinator, its probes of the bootstrap host and the      *)
(* clock, under fair scheduling: the coordinator's loop, every worker and  *)
(* the clock keep taking their steps, and a process that crashed is        *)
(* started again.                                                          *)

\* what a probe prints in SpecLive: an alive verdict, nothing (a dead
\* verdict), a line that cannot be parsed, a move that is under way
LiveOutputs ==
    { <<StateLine("alive", Seed)>>,
      << >>,
      <<BadLine>>,
      <<StateLine("moving", "z.example")>> }

\* time passes until the next check that is scheduled
TickDue ==
    /\ instances # << >>
    /\ \E p \in pick_next_instance(instances) :
         /\ p.check_time > now
         /\ now' = p.check_time
    /\ last' = [NoCall EXCEPT !.op = "tick"]
    /\ UNCHANGED <<store, run, nops, orch>>

\* the process is killed while a probe is in the pool: its worker is lost
Crash ==
    /\ \E i \in 1..MaxTasks : tasks[i].kind = "checker"
    /\ Killed

LiveCoordinator ==
    /\ Boot \/ IterPick \/ IterDispatch
    /\ UNCHANGED <<checker, dispatched, helpers>>

LiveWorker(i) ==
    /\ \/ TaskNew(i) \/ TaskRunOf(i, LiveOutputs) \/ TaskPeer(i)
       \/ TaskFailed(i) \/ TaskDrop(i) \/ TaskList(i)
    /\ UNCHANGED <<checker, dispatched, helpers>>

LiveClock == TickDue /\ UNCHANGED <<checker, dispatched, helpers>>

NextLive ==
    \/ Boot /\ UNCHANGED <<checker, dispatched, helpers>>
    \/ IterPick /\ UNCHANGED <<checker, dispatched, helpers>>
    \/ IterDispatch /\ UNCHANGED <<checker, dispatched, helpers>>
    \/ Crash /\ UNCHANGED <<checker, dispatched, helpers>>
    \/ \E i \in 1..MaxTasks : TaskNew(i) /\ UNCHANGED <<checker, dispatched, helpers>>
    \/ \E i \in 1..MaxTasks : TaskRunOf(i, LiveOutputs) /\ UNCHANGED <<checker, dispatched, helpers>>
    \/ \E i \in 1..MaxTasks : TaskPeer(i) /\ UNCHANGED <<checker, dispatched, helpers>>
    \/ \E i \in 1..MaxTasks : TaskFailed(i) /\ UNCHANGED <<checker, dispatched, helpers>>
    \/ \E i \in 1..MaxTasks : TaskDrop(i) /\ UNCHANGED <<checker, dispatched, helpers>>
    \/ \E i \in 1..MaxTasks : TaskList(i) /\ UNCHANGED <<checker, dispatched, helpers>>
    \/ LiveClock

SpecLive ==
    /\ InitOrchestrator /\ [][NextLive]_vars
    /\ WF_vars(LiveCoordinator)
    /\ WF_vars(LiveClock)
    /\ \A i \in 1..MaxTasks : WF_vars(LiveWorker(i))

(* SpecSleep: the coordinator and its probes with the clock in seconds, so  *)
(* that the sleep of at most three seconds before a dispatch has instants  *)
(* inside it at which the workers write. A draw of the three cadences is   *)
(* an instant later than now in either unit. The list generator, once      *)
(* dispatched, runs for longer than the seconds covered here.              *)

\* the clock visits Now0 + k seconds for k in 0..MaxSeconds
MaxSeconds == 4
\* the coordinator dispatches at most this many probes in SpecSleep
MaxSleepDispatch == 3

\* Duration::from_secs(3), and six hours, in seconds
three_seconds == 3
SixHoursInSeconds == 21600

IterPickSeconds == Iteration(three_seconds, SixHoursInSeconds)

\* what a probe prints in SpecSleep: a move, peers, or a line that cannot
\* be parsed
SleepOutputs ==
    { <<StateLine("moved", "z.example")>>,
      <<StateLine("alive", Seed), PeerLine("z.example"), PeerLine(Seed)>>,
      <<BadLine>> }

\* std::thread::sleep(wait) returns, not before the picked instant
IterWake ==
    /\ pc = "sleeping"
    /\ now >= picked.check_time
    /\ pc' = "slept"
    /\ UNCHANGED <<store, now, last, run, nops, picked, time_to_generate_a_list,
                   terminate, tasks>>

\* one second passes
TickSecond ==
    /\ now < Now0 + MaxSeconds
    /\ now' = now + 1
    /\ last' = [NoCall EXCEPT !.op = "tick"]
    /\ UNCHANGED <<store, run, nops, orch>>

\* the history of dispatches: the check time the dispatched host was picked with
DispatchRecorded ==
    dispatched' = IF last'.ok THEN picked.check_time ELSE dispatched

NextSleep ==
    \/ Boot /\ UNCHANGED <<checker, dispatched, helpers>>
    \/ IterPickSeconds /\ UNCHANGED <<checker, dispatched, helpers>>
    \/ IterWake /\ UNCHANGED <<checker, dispatched, helpers>>
    \/ IterDispatchWithin(MaxSleepDispatch) /\ UNCHANGED <<checker, helpers>> /\ DispatchRecorded
    \/ \E i \in 1..MaxTasks : TaskNew(i) /\ UNCHANGED <<checker, dispatched, helpers>>
    \/ \E i \in 1..MaxTasks : TaskRunOf(i, SleepOutputs) /\ UNCHANGED <<checker, dispatched, helpers>>
    \/ \E i \in 1..MaxTasks : TaskPeer(i) /\ UNCHANGED <<checker, dispatched, helpers>>
    \/ \E i \in 1..MaxTasks : TaskFailed(i) /\ UNCHANGED <<checker, dispatched, helpers>>
    \/ \E i \in 1..MaxTasks : TaskDrop(i) /\ UNCHANGED <<checker, dispatched, helpers>>
    \/ TickSecond /\ UNCHANGED <<checker, dispatched, helpers>>

SpecSleep == InitOrchestrator /\ [][NextSleep]_vars

----------------------------------------------------------------------------
(* run_checker: the subprocess of a probe and what is done about it once   *)
(* the reader of its output has returned.                                  *)

\* Command::spawn: the subprocess runs, or run_checker returns the error
Spawn(i) ==
    /\ child[i].pc = "none"
    /\ \E spawned \in BOOLEAN :
         child' = IF spawned
                  THEN [child EXCEPT ![i] = [NoChild EXCEPT !.pc = "reading",
                                                            !.proc = "running"]]
                  ELSE [child EXCEPT ![i] = [NoChild EXCEPT !.pc = "returned",
                                                            !.result = "err",
                                                            !.returned = "err"]]
    /\ UNCHANGED <<store, now, last, run, nops, orch, checker, dispatched, retry>>

\* the subprocess ends, by itself or by the signal it was sent
Exits(i) ==
    /\ child[i].proc = "running"
    /\ child' = [child EXCEPT ![i].proc = "exited"]
    /\ UNCHANGED <<store, now, last, run, nops, orch, checker, dispatched, retry>>

\* process_checker_response returns, with Ok or with an error
ReaderReturns(i) ==
    /\ child[i].pc = "reading"
    /\ \E result \in {"ok", "err"} :
         child' = [child EXCEPT ![i].pc = "try_wait", ![i].result = result]
    /\ UNCHANGED <<store, now, last, run, nops, orch, checker, dispatched, retry>>

\* Child::try_wait: Ok(Some(status)) of a subprocess that has ended, which
\* reaps it, Ok(None) of one that runs, or an error
try_wait(proc) ==
    {[ok |-> TRUE, proc |-> IF proc = "exited" THEN "reaped" ELSE proc],
     [ok |-> FALSE, proc |-> proc]}

\* checker.try_wait().is_err()
StillRunning(wait, proc) == ~wait.ok

\* if checker.try_wait().is_err()
TryWait(i) ==
    /\ child[i].pc = "try_wait"
    /\ \E wait \in try_wait(child[i].proc) :
         child' = [child EXCEPT
                     ![i].proc = wait.proc,
                     ![i].pc = IF StillRunning(wait, child[i].proc)
                               THEN "kill" ELSE "return"]
    /\ UNCHANGED <<store, now, last, run, nops, orch, checker, dispatched, retry>>

\* checker.kill(): the signal is sent, or the error is logged
Kill(i) ==
    /\ child[i].pc = "kill"
    /\ \E sent \in BOOLEAN :
         child' = [child EXCEPT
                     ![i].pc = "wait_again",
                     ![i].killed = sent,
                     ![i].failed = IF sent THEN @ ELSE @ + 1,
                     ![i].logged = IF sent THEN @ ELSE @ + 1]
    /\ UNCHANGED <<store, now, last, run, nops, orch, checker, dispatched, retry>>

\* the second checker.try_wait(): its error is logged
WaitAgain(i) ==
    /\ child[i].pc = "wait_again"
    /\ \E wait \in try_wait(child[i].proc) :
         child' = [child EXCEPT
                     ![i].proc = wait.proc,
                     ![i].pc = "return",
                     ![i].failed = IF wait.ok THEN @ ELSE @ + 1,
                     ![i].logged = IF wait.ok THEN @ ELSE @ + 1]
    /\ UNCHANGED <<store, now, last, run, nops, orch, checker, dispatched, retry>>

\* run_checker returns result
Return(i) ==
    /\ child[i].pc = "return"
    /\ child' = [child EXCEPT ![i].pc = "returned", ![i].returned = child[i].result]
    /\ UNCHANGED <<store, now, last, run, nops, orch, checker, dispatched, retry>>

(* SpecReap: the workers' calls of run_checker, one for each slot of the   *)
(* pool.                                                                   *)

NextReap ==
    \/ \E i \in 1..MaxTasks : Spawn(i)
    \/ \E i \in 1..MaxTasks : Exits(i)
    \/ \E i \in 1..MaxTasks : ReaderReturns(i)
    \/ \E i \in 1..MaxTasks : TryWait(i)
    \/ \E i \in 1..MaxTasks : Kill(i)
    \/ \E i \in 1..MaxTasks : WaitAgain(i)
    \/ \E i \in 1..MaxTasks : Return(i)

SpecReap == InitOrchestrator /\ [][NextReap]_vars

----------------------------------------------------------------------------
(* The busy-retry helpers around a closure f.                              *)

\* for _ in 0..100
Attempts == 100
\* the helper without a cap is followed for at most this many calls of f
MaxCalls == 102

\* what a call of f returns: Ok, an error that is SQLITE_BUSY, another error
Outcomes == {"ok", "busy", "error"}

\* on_sqlite_busy_retry_indefinitely(f) or on_sqlite_busy_retry(f) is called
CallHelper ==
    /\ retry.pc = "none"
    /\ \E helper \in {"indefinitely", "bounded"} :
         retry' = [NoRetry EXCEPT !.helper = helper, !.pc = "loop"]
    /\ UNCHANGED <<store, now, last, run, nops, orch, checker, dispatched, child>>

\* one turn of the loop: match f(): Ok is returned, a busy error is slept
\* on and the loop goes on, another error is returned; the loop of the
\* bounded helper ends after Attempts turns
Attempt ==
    /\ retry.pc = "loop"
    /\ retry.calls < MaxCalls
    /\ \E outcome \in Outcomes :
         retry' = [retry EXCEPT
                     !.calls = @ + 1,
                     !.returned = IF outcome = "busy" THEN "none" ELSE outcome,
                     !.pc = IF outcome # "busy" THEN "returned"
                            ELSE IF retry.helper = "bounded"
                                    /\ retry.calls + 1 = Attempts
                                 THEN "last" ELSE "loop"]
    /\ UNCHANGED <<store, now, last, run, nops, orch, checker, dispatched, child>>

\* the f() after the loop of on_sqlite_busy_retry: its result is returned
LastAttempt ==
    /\ retry.pc = "last"
    /\ \E outcome \in Outcomes :
         retry' = [retry EXCEPT !.calls = @ + 1, !.returned = outcome,
                                !.pc = "returned"]
    /\ UNCHANGED <<store, now, last, run, nops, orch, checker, dispatched, child>>

(* SpecHelper: one call of either helper, with any outcomes of f.          *)

NextHelper == CallHelper \/ Attempt \/ LastAttempt

SpecHelper == InitOrchestrator /\ [][NextHelper]_vars

----------------------------------------------------------------------------
(* The checker: the choice of a NodeInfo document from the links of the    *)
(* pointer document at /.well-known/nodeinfo.                              *)

\* the most links a pointer document has in the model
MaxLinks == 3

\* SUPPORTED_NODEINFO_SCHEMAS, in the ascending order of schema versions
SUPPORTED_NODEINFO_SCHEMAS ==
    << "http://nodeinfo.diaspora.software/ns/schema/1.0",
       "http://nodeinfo.diaspora.software/ns/schema/1.1",
       "http://nodeinfo.diaspora.software/ns/schema/2.0",
       "http://nodeinfo.diaspora.software/ns/schema/2.1" >>

\* the rel values of the model: the supported schemas and one that is not
Rels ==
    {SUPPORTED_NODEINFO_SCHEMAS[k] : k \in DOMAIN SUPPORTED_NODEINFO_SCHEMAS}
       \cup {"http://nodeinfo.diaspora.software/ns/schema/2.2"}

Hrefs == {"first", "second"}

NodeInfoPointerLink == [rel : Rels, href : Hrefs]

NodeInfoPointer ==
    {[links |-> l] : l \in UNION {[1..n -> NodeInfoPointerLink] : n \in 0..MaxLinks}}

\* Option<String>
None == [some |-> FALSE, href |-> ""]
Some(href) == [some |-> TRUE, href |-> href]

\* SUPPORTED_NODEINFO_SCHEMAS.iter().position(|el| el == &link.rel): the
\* index of the schema, or 0 for None
position(rel) ==
    IF \E k \in DOMAIN SUPPORTED_NODEINFO_SCHEMAS : SUPPORTED_NODEINFO_SCHEMAS[k] = rel
    THEN CHOOSE k \in DOMAIN SUPPORTED_NODEINFO_SCHEMAS :
            SUPPORTED_NODEINFO_SCHEMAS[k] = rel
    ELSE 0

\* a choice of the first supported link, whatever its version
pick_first_supported_nodeinfo_version(p) ==
    LET found == {k \in DOMAIN p.links : position(p.links[k].rel) # 0} IN
    IF found = {} THEN None
    ELSE Some(p.links[CHOOSE k \in found : \A j \in found : k <= j].href)

\* filter_map keeps the links with a supported rel, with their priority;
\* max_by_key returns the last of the elements with the greatest priority
pick_highest_supported_nodeinfo_version(p) ==
    LET found == {k \in DOMAIN p.links : position(p.links[k].rel) # 0}
        priority(k) == position(p.links[k].rel)
    IN
    IF found = {} THEN None
    ELSE Some(p.links[CHOOSE k \in found :
                        \A j \in found :
                           \/ priority(j) < priority(k)
                           \/ priority(j) = priority(k) /\ j <= k].href)

\* fetch_nodeinfo: the pick from the pointer that was fetched
PickVersion ==
    /\ nodeinfo_url = << >>
    /\ nodeinfo_url' = <<pick_highest_supported_nodeinfo_version(pointer)>>
    /\ UNCHANGED <<store, now, last, run, nops, orch, pointer, dispatched, helpers>>

(* SpecPick: the pick from any pointer document of at most MaxLinks links. *)

InitPick ==
    /\ now = Now0
    /\ instances = EmptyDB.instances
    /\ dying_state_data = EmptyDB.dying_state_data
    /\ moving_state_data = EmptyDB.moving_state_data
    /\ moved_state_data = EmptyDB.moved_state_data
    /\ last = NoCall
    /\ run = NoRun
    /\ nops = 0
    /\ pc = "off"
    /\ picked = [host |-> Seed, check_time |-> NULL]
    /\ time_to_generate_a_list = NULL
    /\ terminate = FALSE
    /\ tasks = [i \in 1..MaxTasks |-> Idle]
    /\ pointer \in NodeInfoPointer
    /\ nodeinfo_url = << >>
    /\ dispatched = NULL
    /\ child = NoChildren
    /\ retry = NoRetry

NextPick == PickVersion

SpecPick == InitPick /\ [][NextPick]_vars

----------------------------------------------------------------------------
(* SpecTx: the mutators statement by statement. Each mutator opens a       *)
(* transaction, runs its statements on it and commits at the end; a        *)
(* statement that fails (or a draw of the time policy that fails between   *)
(* two statements) returns through `?`, and the transaction is dropped     *)
(* without a commit. Writes_* lists the store as the transaction sees it   *)
(* after each of its writes, in the order of the code.                     *)

\* a transaction dropped with its writes left in the store
Rollback_KeepsWritten(db, written) == written

\* let tx = conn.transaction()...; dropped before tx.commit(): rolled back
Rollback(db, written) == db

Writes_mark_alive(db, host, t, daily) ==
    IF ~Known(db.instances, host) THEN << >>
    ELSE
    LET id == IdOf(db.instances, host)
        s1 == [db EXCEPT !.dying_state_data = DeleteRows(@, id)]
        s2 == [s1 EXCEPT !.moving_state_data = DeleteRows(@, id)]
        s3 == [s2 EXCEPT !.moved_state_data = DeleteRows(@, id)]
        s4 == [s3 EXCEPT !.instances = SetChecked(@, id, "Alive", t, daily, "daily")]
    IN <<s1, s2, s3, s4>>

Writes_mark_dead(db, host, t, daily, weekly) ==
    IF ~Known(db.instances, host) THEN << >>
    ELSE
    LET id == IdOf(db.instances, host)
        state == db.instances[id].state
    IN
    CASE state \in {"Discovered", "Alive", "Moving", "Moved"} ->
           LET s1 == [db EXCEPT !.moving_state_data = DeleteRows(@, id)]
               s2 == [s1 EXCEPT !.moved_state_data = DeleteRows(@, id)]
               s3 == [s2 EXCEPT !.dying_state_data = @ \cup {NewDyingRow(id, t)}]
               s4 == [s3 EXCEPT !.instances =
                                   SetChecked(@, id, "Dying", t, daily, "daily")]
           IN IF HasRow(db.dying_state_data, id) THEN <<s1, s2>>
              ELSE <<s1, s2, s3, s4>>
      [] state = "Dying" ->
           LET s1 == [db EXCEPT !.dying_state_data = IncrementFailed(@, id)]
               row == RowOf(s1.dying_state_data, id)
               s2 == [s1 EXCEPT !.dying_state_data = DeleteRows(@, id)]
               s3 == [s2 EXCEPT !.instances =
                                   SetChecked(@, id, "Dead", t, weekly, "weekly")]
               r2 == [s1 EXCEPT !.instances =
                                   SetRechecked(@, id, t, daily, "daily")]
           IN IF ~HasRow(db.dying_state_data, id) THEN <<s1>>
              ELSE IF DeadPromotes(row.failed_checks_count, row.dying_since, t)
              THEN <<s1, s2, s3>>
              ELSE <<s1, r2>>
      [] state = "Dead" ->
           <<[db EXCEPT !.instances = SetRechecked(@, id, t, weekly, "weekly")]>>

Writes_mark_moved(db, host, to, t, today, daily, weekly) ==
    IF ~Known(db.instances, host) THEN << >>
    ELSE
    LET id == IdOf(db.instances, host)
        state == db.instances[id].state
    IN
    CASE state \in {"Discovered", "Alive", "Dying", "Dead"} ->
           LET s1 == [db EXCEPT !.dying_state_data = DeleteRows(@, id)]
               s2 == [s1 EXCEPT !.instances = InsertOrIgnore(@, to, id, today)]
               to_id == IdOf(s2.instances, to)
               s3 == [s2 EXCEPT !.moving_state_data =
                                   @ \cup {NewMovingRow(id, to_id, t)}]
               s4 == [s3 EXCEPT !.instances =
                                   SetChecked(@, id, "Moving", t, daily, "daily")]
           IN IF HasRow(db.moving_state_data, id) THEN <<s1, s2>>
              ELSE <<s1, s2, s3, s4>>
      [] state = "Moving" ->
           IF ~Known(db.instances, to) THEN << >>
           ELSE
           LET to_id == IdOf(db.instances, to)
               s1 == [db EXCEPT !.moving_state_data = IncrementRedirects(@, id)]
               row == RowOf(s1.moving_state_data, id)
               s2 == [s1 EXCEPT !.moving_state_data = DeleteRows(@, id)]
               s3 == [s2 EXCEPT !.moved_state_data = @ \cup {NewMovedRow(id, to_id)}]
               s4 == [s3 EXCEPT !.instances =
                                   SetChecked(@, id, "Moved", t, weekly, "weekly")]
               r2 == [s1 EXCEPT !.instances =
                                   SetRechecked(@, id, t, daily, "daily")]
               n1 == [db EXCEPT !.moving_state_data =
                                   RestartMoving(@, id, to_id, t)]
               n2 == [n1 EXCEPT !.instances =
                                   SetRechecked(@, id, t, daily, "daily")]
           IN IF IsMovingToThatHostAlready(db.moving_state_data, id, to_id)
              THEN IF MovedPromotes(row.redirects_count, row.moving_since, t)
                   THEN IF HasRow(db.moved_state_data, id) THEN <<s1, s2>>
                        ELSE <<s1, s2, s3, s4>>
                   ELSE <<s1, r2>>
              ELSE <<n1, n2>>
      [] state = "Moved" ->
           <<[db EXCEPT !.instances = SetRechecked(@, id, t, weekly, "weekly")]>>

Writes_reschedule(db, host, daily, weekly) ==
    LET res == reschedule(db, host, daily, weekly) IN
    IF res.ok THEN <<res.db>> ELSE << >>

\* the mutator fails when `written` of its writes are done: the error is
\* returned and the transaction is dropped
Failing(op, h, to, writes) ==
    \E written \in 0..Len(writes) :
      LET res == Err(Rollback(DB, IF written = 0 THEN DB ELSE writes[written])) IN
      /\ Commit(res.db)
      /\ Called(op, h, to, res)
      /\ run' = [NoRun EXCEPT !.op = "rollback", !.host = h, !.to = to,
                              !.from = StateOf(instances, h),
                              !.start = now, !.times = written]
      /\ UNCHANGED <<now, orch>>

MarkAliveFails(h) ==
    \E daily \in rand_datetime_daily(now) :
      Failing("mark_alive", h, h, Writes_mark_alive(DB, h, now, daily))

MarkDeadFails(h) ==
    \E daily \in rand_datetime_daily(now), weekly \in rand_datetime_weekly(now) :
      Failing("mark_dead", h, h, Writes_mark_dead(DB, h, now, daily, weekly))

MarkMovedFails(h, to) ==
    \E today \in rand_datetime_today(now), daily \in rand_datetime_daily(now),
       weekly \in rand_datetime_weekly(now) :
      Failing("mark_moved", h, to,
              Writes_mark_moved(DB, h, to, now, today, daily, weekly))

RescheduleFails(h) ==
    \E daily \in rand_datetime_daily(now), weekly \in rand_datetime_weekly(now) :
      Failing("reschedule", h, h, Writes_reschedule(DB, h, daily, weekly))

NextTx ==
    \/ Counted /\ \E h \in HostNames : MarkAlive(h) /\ UNCHANGED <<checker, dispatched, helpers>>
    \/ Counted /\ \E h \in HostNames : MarkDead(h) /\ UNCHANGED <<checker, dispatched, helpers>>
    \/ Counted /\ \E h, to \in HostNames : MarkMoved(h, to) /\ UNCHANGED <<checker, dispatched, helpers>>
    \/ Counted /\ \E h, peer \in HostNames : AddInstance(h, peer) /\ UNCHANGED <<checker, dispatched, helpers>>
    \/ Counted /\ \E h \in HostNames : Reschedule(h) /\ UNCHANGED <<checker, dispatched, helpers>>
    \/ Counted /\ Tick /\ UNCHANGED <<checker, dispatched, helpers>>
    \/ Counted /\ \E h \in HostNames : MarkAliveFails(h) /\ UNCHANGED <<checker, dispatched, helpers>>
    \/ Counted /\ \E h \in HostNames : MarkDeadFails(h) /\ UNCHANGED <<checker, dispatched, helpers>>
    \/ Counted /\ \E h, to \in HostNames : MarkMovedFails(h, to) /\ UNCHANGED <<checker, dispatched, helpers>>
    \/ Counted /\ \E h \in HostNames : RescheduleFails(h) /\ UNCHANGED <<checker, dispatched, helpers>>

SpecTx == Init /\ [][NextTx]_vars

----------------------------------------------------------------------------
(* Properties. *)

\* the rows an instance has in each side table
Dying(id) == RowsOf(dying_state_data, id)
Moving(id) == RowsOf(moving_state_data, id)
Moved(id) == RowsOf(moved_state_data, id)
SideRows(id) ==
    Cardinality(Dying(id)) + Cardinality(Moving(id)) + Cardinality(Moved(id))

\* the call that this step made
Step(op, host) == last'.op = op /\ last'.host = host

DailyNext(inst) ==
    inst.next_check_datetime \in rand_datetime_daily(now) /\ inst.cadence = "daily"
WeeklyNext(inst) ==
    inst.next_check_datetime \in rand_datetime_weekly(now) /\ inst.cadence = "weekly"

\* C1: after any sequence of mutators every instance has at most one row
\* across the three side tables; an instance that is Dying, Moving or Moved
\* has exactly one row, in the table of its state, and an instance that is
\* Discovered, Alive or Dead has none.
C1_SideTableMatchesState ==
    \A id \in DOMAIN instances :
       /\ SideRows(id) <= 1
       /\ instances[id].state = "Dying" => Cardinality(Dying(id)) = 1
       /\ instances[id].state = "Moving" => Cardinality(Moving(id)) = 1
       /\ instances[id].state = "Moved" => Cardinality(Moved(id)) = 1
       /\ instances[id].state \in {"Discovered", "Alive", "Dead"} => SideRows(id) = 0

\* C1's case: a Moved instance was just given a DEAD verdict, so its
\* moved_state_data row had to go and a dying_state_data row had to come
C1_Witness ==
    /\ last.op = "mark_dead" /\ last.ok /\ last.pre = "Moved"
    /\ Cardinality(Dying(IdOf(instances, last.host))) = 1

\* C2: at most one probe is in flight for any instance: no two checker
\* handles between start_checking and finish_checking are for the same host.
C2_OneProbePerInstance ==
    \A h \in HostNames :
       Cardinality({i \in 1..MaxTasks : InFlight(tasks[i]) /\ tasks[i].host = h}) <= 1

\* C3, the rule: mark_dead on a Dying instance adds one to
\* failed_checks_count and keeps dying_since; if the new count is above 7 and
\* dying_since is later than a week ago the instance becomes Dead, loses its
\* dying_state_data row and gets a weekly next check, otherwise it stays Dying
\* with the counted row and a daily next check.
C3_Rule(h) ==
    LET id == IdOf(instances, h)
        row == RowOf(dying_state_data, id)
        count == row.failed_checks_count + 1
        inst == instances'[id]
    IN
    (Step("mark_dead", h) /\ last'.pre = "Dying") =>
       /\ last'.ok
       /\ inst.last_check_datetime = now
       /\ IF count > 7 /\ row.dying_since > now - Week
          THEN /\ inst.state = "Dead"
               /\ SideRows(id)' = 0
               /\ WeeklyNext(inst)
          ELSE /\ inst.state = "Dying"
               /\ Dying(id)' = {[row EXCEPT !.failed_checks_count = count]}
               /\ DailyNext(inst)

\* C3, the scenario: a Discovered instance that has received k DEAD verdicts
\* and nothing else, all within a week, is Dying with failed_checks_count = k
\* for k = 1..7 and Dead, without a side-table row, for k = 8.
C3_Scenario ==
    LET id == IdOf(instances, run.host)
        inst == instances[id]
    IN
    (/\ run.op = "mark_dead" /\ run.from = "Discovered"
     /\ inst.last_check_datetime - run.start < Week) =>
       /\ run.times \in 1..7 =>
            /\ inst.state = "Dying"
            /\ Dying(id) = {[instance |-> id, dying_since |-> run.start,
                             failed_checks_count |-> run.times]}
       /\ run.times = 8 => inst.state = "Dead" /\ SideRows(id) = 0

C3_MarkDeadOnDying ==
    [][\A h \in HostNames : C3_Rule(h)]_vars /\ []C3_Scenario

\* C3's case: the eighth DEAD verdict in a row, later than the first but
\* within its week, has made the instance Dead
C3_Witness ==
    /\ run.op = "mark_dead" /\ run.from = "Discovered" /\ run.times = 8
    /\ last.op = "mark_dead" /\ last.pre = "Dying"
    /\ instances[IdOf(instances, run.host)].state = "Dead"
    /\ instances[IdOf(instances, run.host)].last_check_datetime > run.start

\* C4: whenever mark_dead promotes Dying to Dead at least seven days have
\* passed since dying_since, and whenever mark_moved promotes Moving to Moved
\* at least seven days have passed since moving_since.
C4_Promoted(h) ==
    LET id == IdOf(instances, h) IN
    /\ (Step("mark_dead", h) /\ last'.pre = "Dying"
          /\ instances'[id].state = "Dead")
         => now - RowOf(dying_state_data, id).dying_since >= Week
    /\ (Step("mark_moved", h) /\ last'.pre = "Moving"
          /\ instances'[id].state = "Moved")
         => now - RowOf(moving_state_data, id).moving_since >= Week

C4_PromotedAfterAWeek == [][\A h \in HostNames : C4_Promoted(h)]_vars

\* C5: mark_dead on a Discovered, Alive, Moving or Moved instance makes it
\* Dying with a dying_state_data row of failed_checks_count = 1 and
\* dying_since = now, without a moving_state_data or moved_state_data row,
\* with last_check_datetime = now and a daily next check.
C5_Rule(h) ==
    LET id == IdOf(instances, h)
        inst == instances'[id]
    IN
    (Step("mark_dead", h)
       /\ last'.pre \in {"Discovered", "Alive", "Moving", "Moved"}) =>
       /\ last'.ok
       /\ inst.state = "Dying"
       /\ Dying(id)' = {[instance |-> id, dying_since |-> now,
                         failed_checks_count |-> 1]}
       /\ Moving(id)' = {}
       /\ Moved(id)' = {}
       /\ inst.last_check_datetime = now
       /\ DailyNext(inst)

C5_MarkDeadIntoDying == [][\A h \in HostNames : C5_Rule(h)]_vars

\* C5's case: a Moved instance was given a DEAD verdict and is Dying
C5_Witness ==
    /\ last.op = "mark_dead" /\ last.ok /\ last.pre = "Moved"
    /\ instances[IdOf(instances, last.host)].state = "Dying"
    /\ Moved(IdOf(instances, last.host)) = {}

\* C6: mark_moved(host, target) on a Discovered, Alive, Dying or Dead
\* instance makes it Moving with a moving_state_data row whose moving_to is
\* the target's id, redirects_count = 1 and moving_since = now, without a
\* dying_state_data row; a target that was not known exists afterwards as a
\* Discovered instance scheduled for today.
C6_Rule(h, to) ==
    LET id == IdOf(instances, h)
        inst == instances'[id]
    IN
    (Step("mark_moved", h) /\ last'.to = to
       /\ last'.pre \in {"Discovered", "Alive", "Dying", "Dead"}) =>
       /\ last'.ok
       /\ inst.state = "Moving"
       /\ Known(instances', to)
       /\ Moving(id)' = {[instance |-> id,
                          moving_since |-> now,
                          redirects_count |-> 1,
                          moving_to |-> IdOf(instances', to)]}
       /\ Dying(id)' = {}
       /\ ~Known(instances, to) =>
            /\ instances'[IdOf(instances', to)].state = "Discovered"
            /\ instances'[IdOf(instances', to)].cadence = "today"

C6_MarkMovedIntoMoving == [][\A h, to \in HostNames : C6_Rule(h, to)]_vars

\* C7: every moving_to and every moved_to is the id of a row of instances.
C7_TargetsExist ==
    /\ \A r \in moving_state_data : r.moving_to \in DOMAIN instances
    /\ \A r \in moved_state_data : r.moved_to \in DOMAIN instances

\* C8, the rule: mark_moved(host, target) on a Moving instance whose
\* moving_to is the target's id adds one to redirects_count; if the new count
\* is above 7 and moving_since is later than a week ago the instance becomes
\* Moved, loses its moving_state_data row, gets a moved_state_data row with
\* moved_to = the target's id and a weekly next check, otherwise it stays
\* Moving with the counted row and a daily next check.
C8_Rule(h, to) ==
    LET id == IdOf(instances, h)
        row == RowOf(moving_state_data, id)
        count == row.redirects_count + 1
        inst == instances'[id]
    IN
    (/\ Step("mark_moved", h) /\ last'.to = to /\ last'.pre = "Moving"
     /\ Known(instances, to)
     /\ row.moving_to = IdOf(instances, to)) =>
       /\ last'.ok
       /\ inst.last_check_datetime = now
       /\ IF count > 7 /\ row.moving_since > now - Week
          THEN /\ inst.state = "Moved"
               /\ Moving(id)' = {}
               /\ Moved(id)' = {[instance |-> id, moved_to |-> IdOf(instances, to)]}
               /\ WeeklyNext(inst)
          ELSE /\ inst.state = "Moving"
               /\ Moving(id)' = {[row EXCEPT !.redirects_count = count]}
               /\ DailyNext(inst)

\* C8, the scenario: a Discovered instance that has received a MOVED verdict
\* and then the same verdict eight more times and nothing else, all within a
\* week, is Moved with moved_to = the target's id.
C8_Scenario ==
    LET id == IdOf(instances, run.host)
        inst == instances[id]
    IN
    (/\ run.op = "mark_moved" /\ run.from = "Discovered" /\ run.times = 9
     /\ inst.last_check_datetime - run.start < Week) =>
       /\ inst.state = "Moved"
       /\ Moved(id) = {[instance |-> id, moved_to |-> IdOf(instances, run.to)]}

C9_Rule(h, to) ==
    LET id == IdOf(instances, h)
        row == RowOf(moving_state_data, id)
        inst == instances'[id]
    IN
    (/\ Step("mark_moved", h) /\ last'.to = to /\ last'.pre = "Moving"
     /\ (Known(instances, to) => row.moving_to # IdOf(instances, to))) =>
       /\ last'.ok
       /\ inst.state = "Moving"
       /\ Known(instances', to)
       /\ Moving(id)' = {[instance |-> id,
                          moving_since |-> now,
                          redirects_count |-> 1,
                          moving_to |-> IdOf(instances', to)]}
       /\ inst.last_check_datetime = now
       /\ DailyNext(inst)
       /\ ~Known(instances, to) =>
            instances'[IdOf(instances', to)].state = "Discovered"

C9_RedirectTargetChange == [][\A h, to \in HostNames : C9_Rule(h, to)]_vars

\* C10: mark_alive on an instance in any state makes it Alive without a row
\* in dying_state_data, moving_state_data or moved_state_data, with
\* last_check_datetime = now and a daily next check.
C10_Rule(h) ==
    LET id == IdOf(instances, h)
        inst == instances'[id]
    IN
    (Step("mark_alive", h) /\ last'.pre \in InstanceState) =>
       /\ last'.ok
       /\ inst.state = "Alive"
       /\ SideRows(id)' = 0
       /\ inst.last_check_datetime = now
       /\ DailyNext(inst)

C10_MarkAlive == [][\A h \in HostNames : C10_Rule(h)]_vars

\* C10's case: a Moved instance was given an ALIVE verdict
C10_Witness ==
    /\ last.op = "mark_alive" /\ last.ok /\ last.pre = "Moved"
    /\ instances[IdOf(instances, last.host)].state = "Alive"

\* the side tables are as they were
SideTablesKept ==
    UNCHANGED <<dying_state_data, moving_state_data, moved_state_data>>

\* C11: mark_dead on a Dead instance and mark_moved on a Moved instance,
\* whatever the target, succeed and change nothing but the instance's
\* last_check_datetime, which becomes now, and its next check, which is drawn
\* weekly: the state stays, a Dead instance has no side-table row, a Moved
\* instance keeps its moved_to, and no instance is added.
C11_Reconfirmed(id) ==
    /\ last'.ok
    /\ \E next \in rand_datetime_weekly(now) :
         instances' = [instances EXCEPT ![id].last_check_datetime = now,
                                        ![id].next_check_datetime = next,
                                        ![id].cadence = "weekly"]
    /\ SideTablesKept

C11_Rule(h) ==
    LET id == IdOf(instances, h) IN
    /\ (Step("mark_dead", h) /\ last'.pre = "Dead") =>
          C11_Reconfirmed(id) /\ SideRows(id)' = 0
    /\ (Step("mark_moved", h) /\ last'.pre = "Moved") =>
          C11_Reconfirmed(id) /\ Cardinality(Moved(id)') = 1

C11_ReconfirmingVerdict == [][\A h \in HostNames : C11_Rule(h)]_vars

\* C11's case: a Moved instance was told of a move to a host that is not
\* its moved_to and has never been seen
C11_Witness ==
    /\ last.op = "mark_moved" /\ last.ok /\ last.pre = "Moved"
    /\ ~Known(instances, last.to)
    /\ instances[IdOf(instances, last.host)].state = "Moved"
    /\ instances[IdOf(instances, last.host)].last_check_datetime = now

\* C12: reschedule(host) succeeds for a known host and changes nothing but
\* the host's next_check_datetime, drawn weekly when its state is Dead or
\* Moved and daily otherwise: state, last_check_datetime, check_started, every
\* other instance and the three side tables are as they were.
C12_Rule(h) ==
    LET id == IdOf(instances, h)
        slow == instances[id].state \in {"Dead", "Moved"}
    IN
    (Step("reschedule", h) /\ Known(instances, h)) =>
       /\ last'.ok
       /\ \E next \in (IF slow THEN rand_datetime_weekly(now)
                               ELSE rand_datetime_daily(now)) :
            instances' = [instances EXCEPT
                            ![id].next_check_datetime = next,
                            ![id].cadence = IF slow THEN "weekly" ELSE "daily"]
       /\ SideTablesKept

C12_RescheduleFrame == [][\A h \in HostNames : C12_Rule(h)]_vars

\* C12's case: a Moved instance, with its moved_state_data row, was
\* rescheduled
C12_Witness ==
    /\ last.op = "reschedule" /\ last.ok /\ last.pre = "Moved"
    /\ Cardinality(Moved(IdOf(instances, last.host))) = 1
    /\ instances[IdOf(instances, last.host)].cadence = "weekly"

\* C13: a successful add_instance(source, peer) leaves exactly one row of
\* instances for peer, no hostname ever has two rows, and add_instance for a
\* peer that is already present changes nothing in the store.
C13_Rule(source, peer) ==
    (Step("add_instance", source) /\ last'.to = peer) =>
       /\ Known(instances, peer) => UNCHANGED store
       /\ last'.ok =>
            Cardinality({i \in DOMAIN instances' : instances'[i].hostname = peer}) = 1

C13_OneRowPerHost ==
    \A h \in HostNames :
       Cardinality({i \in DOMAIN instances : instances[i].hostname = h}) <= 1

C13_AddInstanceIdempotent ==
    [][\A source, peer \in HostNames : C13_Rule(source, peer)]_vars
       /\ []C13_OneRowPerHost

\* C13's case: a peer discovered via one source was added again from
\* another source and kept its discovered_via
C13_Witness ==
    /\ last.op = "add_instance" /\ last.ok /\ last.to # last.host
    /\ instances[IdOf(instances, last.to)].discovered_via
          \notin {NULL, IdOf(instances, last.host)}

\* the store calls a task has committed
Applied(task) == {task.calls[k] : k \in DOMAIN task.calls}

\* C14: when main's startup (init, reschedule_missed_checks) is done, no
\* instance has check_started set, whatever a process that was killed
\* mid-probe left in the database.
C14_Rule ==
    last'.op = "reschedule_missed_checks" =>
       \A id \in DOMAIN instances' : instances'[id].check_started = NULL

C14_StartupClearsCheckStarted == [][C14_Rule]_vars

\* C15: while the orchestrator runs, an instance whose check_started is set
\* has a checker handle that was acquired and not yet released.
C15_CheckStartedMeansProbe ==
    pc # "off" =>
       \A id \in DOMAIN instances :
          instances[id].check_started # NULL =>
             \E i \in 1..MaxTasks :
                InFlight(tasks[i]) /\ tasks[i].host = instances[id].hostname

\* C16: a checker handle that was acquired stops being in flight only by
\* finish_checking for its host, which succeeds and leaves the host's
\* check_started NULL, on every way out of the probe: a normal return, an
\* error and a panic; and when no handle is in flight no instance is pinned.
C16_Rule(i) ==
    (InFlight(tasks[i]) /\ ~InFlight(tasks'[i])) =>
       /\ tasks[i].pc = "drop"
       /\ last'.op = "finish_checking" /\ last'.host = tasks[i].host
       /\ last'.ok
       /\ \A id \in DOMAIN instances' :
            instances'[id].hostname = tasks[i].host =>
               instances'[id].check_started = NULL

C16_NonePinned ==
    (\A i \in 1..MaxTasks : ~InFlight(tasks[i])) =>
       \A id \in DOMAIN instances : instances[id].check_started = NULL

C17_Rule ==
    last'.op = "pick_next_instance" =>
       instances[IdOf(instances, picked'.host)].check_started = NULL

C17_PickSkipsCheckStarted == [][C17_Rule]_vars

\* the probe of a task is over and its handle is about to be released
Over(task) == task.kind = "checker" /\ task.pc = "drop"

\* C18: a probe whose first line was a peer line has had mark_dead applied
\* to its target and returns an error, which the closure logs.
C18_PeerFirstIsDeadAndLogged ==
    \A i \in 1..MaxTasks :
       (/\ Over(tasks[i]) /\ tasks[i].out # << >>
        /\ Head(tasks[i].out).tag = "peer") =>
          "mark_dead" \in Applied(tasks[i]) /\ Logged(tasks[i])

\* C19: a probe whose first line was state=alive and which had a state line
\* later has had mark_dead applied to its target and returns an error, which
\* the closure logs.
C19_StateLaterIsDeadAndLogged ==
    \A i \in 1..MaxTasks :
       (/\ Over(tasks[i]) /\ tasks[i].out # << >>
        /\ Head(tasks[i].out) = StateLine("alive", Seed)
        /\ \E k \in 2..Len(tasks[i].out) : tasks[i].out[k].tag = "state") =>
          "mark_dead" \in Applied(tasks[i]) /\ Logged(tasks[i])

\* C20: a probe that wrote no line applies mark_dead once and nothing else,
\* and returns without an error; on a Discovered target that call leaves the
\* target Dying with failed_checks_count = 1 and dying_since = now.
C20_Calls ==
    \A i \in 1..MaxTasks :
       (Over(tasks[i]) /\ tasks[i].out = << >>) =>
          tasks[i].calls = <<"mark_dead">> /\ ~Logged(tasks[i])

C20_Rule(i) ==
    LET id == IdOf(instances, tasks[i].host) IN
    (/\ tasks[i].kind = "checker" /\ tasks[i].pc = "run"
     /\ tasks'[i].pc \in {"drop", "failed"} /\ tasks'[i].out = << >>
     /\ instances[id].state = "Discovered") =>
       /\ instances'[id].state = "Dying"
       /\ Dying(id)' = {[instance |-> id, dying_since |-> now,
                         failed_checks_count |-> 1]}

C20_NoOutputIsOneDeadVerdict ==
    [][\A i \in 1..MaxTasks : C20_Rule(i)]_vars /\ []C20_Calls

\* C20's case: the probe of a Discovered target wrote nothing
C20_Witness ==
    \E i \in 1..MaxTasks :
       /\ Over(tasks[i]) /\ tasks[i].out = << >>
       /\ last.op = "mark_dead" /\ last.host = tasks[i].host
       /\ last.pre = "Discovered"
       /\ instances[IdOf(instances, tasks[i].host)].state = "Dying"

\* the probe wrote state=alive and after it peer lines only
AliveThenPeers(out) ==
    /\ out # << >>
    /\ Head(out).tag = "state" /\ Head(out).state = "alive"
    /\ \A k \in 2..Len(out) : out[k].tag = "peer"

\* C21: a probe whose output is state=alive followed by peer lines only
\* applies mark_alive first, which leaves the target Alive with a daily next
\* check, and then one add_instance per peer line, which leaves the target's
\* row alone and the peer in the table; a peer that was not known before is
\* Discovered with discovered_via = the target's id and a schedule drawn for
\* today. When the output is read through, the probe's calls are mark_alive
\* and then the add_instance calls, every listed peer is an instance, and
\* the target of a probe that ran alone is Alive with a daily next check.
C21_Rule(i) ==
    LET target == tasks[i].host
        id == IdOf(instances, target)
        reading == tasks[i].kind = "checker" /\ AliveThenPeers(tasks'[i].out)
    IN
    /\ (reading /\ tasks[i].pc = "run" /\ tasks'[i].pc = "peers") =>
          /\ instances'[id].state = "Alive"
          /\ DailyNext(instances'[id])
          /\ instances'[id].last_check_datetime = now
          /\ tasks'[i].calls = <<"mark_alive">>
    /\ (/\ reading /\ tasks[i].pc = "peers" /\ tasks[i].lines # << >>
        /\ tasks'[i] # tasks[i]) =>
          LET peer == Head(tasks[i].lines).host IN
          /\ tasks'[i].pc = "peers"
          /\ Head(tasks'[i].calls) = "mark_alive"
          /\ tasks'[i].calls = Append(tasks[i].calls, "add_instance")
          /\ instances'[id] = instances[id]
          /\ Known(instances', peer)
          /\ ~Known(instances, peer) =>
                LET row == instances'[IdOf(instances', peer)] IN
                /\ row.state = "Discovered"
                /\ row.discovered_via = id
                /\ row.next_check_datetime \in rand_datetime_today(now)
                /\ row.cadence = "today"
    /\ (reading /\ tasks[i].pc = "peers" /\ tasks[i].lines = << >>) =>
          /\ tasks[i].calls =
                [k \in 1..Len(tasks[i].out) |->
                    IF k = 1 THEN "mark_alive" ELSE "add_instance"]
          /\ \A k \in 2..Len(tasks[i].out) :
                Known(instances, tasks[i].out[k].host)
          /\ nops = 1 =>
                instances[id].state = "Alive" /\ DailyNext(instances[id])

C21_AliveThenPeers == [][\A i \in 1..MaxTasks : C21_Rule(i)]_vars

\* C21's case: the probe of the bootstrap host listed a peer that was not
\* known and a peer that was, and has read its output through
C21_Witness ==
    \E i \in 1..MaxTasks :
       /\ Over(tasks[i]) /\ AliveThenPeers(tasks[i].out) /\ Len(tasks[i].out) = 3
       /\ tasks[i].calls = <<"mark_alive", "add_instance", "add_instance">>
       /\ instances[IdOf(instances, tasks[i].host)].state = "Alive"
       /\ LET row == instances[IdOf(instances, tasks[i].out[2].host)] IN
          /\ row.state = "Discovered"
          /\ row.discovered_via = IdOf(instances, tasks[i].host)
          /\ row.cadence = "today"
       /\ last.op = "add_instance" /\ last.to = tasks[i].host

\* the first line of the probe's output names this state
FirstState(out, state) ==
    out # << >> /\ Head(out).tag = "state" /\ Head(out).state = state

\* C22: a probe whose first line is state=moving only reschedules its
\* target: the step leaves the target's state, its last check and every
\* side-table row (so every redirects_count) as they were and gives the
\* target the next check of its state's cadence; and a probe has applied
\* mark_moved only if its first line was state=moved.
C22_Rule(i) ==
    LET id == IdOf(instances, tasks[i].host) IN
    (/\ tasks[i].kind = "checker" /\ tasks[i].pc = "run"
     /\ tasks'[i] # tasks[i] /\ FirstState(tasks'[i].out, "moving")) =>
       /\ instances'[id].state = instances[id].state
       /\ instances'[id].last_check_datetime = instances[id].last_check_datetime
       /\ \A j \in DOMAIN instances : j # id => instances'[j] = instances[j]
       /\ SideTablesKept
       /\ tasks'[i].calls \in {<< >>, <<"reschedule">>}
       /\ tasks'[i].calls = <<"reschedule">> =>
             IF instances[id].state \in {"Dead", "Moved"}
             THEN WeeklyNext(instances'[id]) ELSE DailyNext(instances'[id])

C22_OnlyMovedCallsMarkMoved ==
    \A i \in 1..MaxTasks :
       "mark_moved" \in Applied(tasks[i]) => FirstState(tasks[i].out, "moved")

C22_MovingOnlyReschedules ==
    [][\A i \in 1..MaxTasks : C22_Rule(i)]_vars /\ []C22_OnlyMovedCallsMarkMoved

\* C22's case: an instance that is Moving after one redirect was probed
\* again, the probe said state=moving, and the count of redirects is still 1
C22_Witness ==
    \E i \in 1..MaxTasks :
       /\ Over(tasks[i]) /\ FirstState(tasks[i].out, "moving")
       /\ tasks[i].calls = <<"reschedule">>
       /\ last.op = "reschedule" /\ last.host = tasks[i].host
       /\ last.pre = "Moving"
       /\ \E r \in Moving(IdOf(instances, tasks[i].host)) : r.redirects_count = 1

\* the probe itself failed: it could not be spawned, or a line of its
\* output could not be read or parsed
ProbeFailed(out) == \E k \in DOMAIN out : out[k].tag = "error"

\* C23: a probe that itself failed has had reschedule applied to its target
\* and no other call: no mark_alive, mark_dead or mark_moved, so the target
\* has the state and the side-table row it had.
C23_ProbeFailureOnlyReschedules ==
    \A i \in 1..MaxTasks :
       (Over(tasks[i]) /\ ProbeFailed(tasks[i].out)) =>
          tasks[i].calls = <<"reschedule">>

\* a task was given to the pool in this step
Dispatching == \E i \in 1..MaxTasks : tasks[i].kind = "idle" /\ tasks'[i].kind # "idle"

\* C24: once the terminate flag is set the coordinator begins no iteration:
\* the iteration in progress is at most tried again after SQLITE_BUSY,
\* which dispatches nothing, and ends in the join; nothing is dispatched
\* from the join on; main returns only with the flag set and every task of
\* the pool finished, and it does return: the tasks in flight run to their
\* end.
C24_Rule ==
    terminate =>
       /\ pc' = "iterate" =>
             (~Dispatching /\ (pc = "iterate" \/ last'.op = "busy"))
       /\ pc \in {"join", "done"} => (pc' \in {"join", "done"} /\ ~Dispatching)
       /\ terminate'

C24_Drained ==
    pc = "done" => (terminate /\ \A i \in 1..MaxTasks : tasks[i].kind = "idle")

C24_GracefulShutdown ==
    /\ [][C24_Rule]_vars
    /\ []C24_Drained
    /\ (terminate /\ nops < MaxDispatch) ~> (pc = "done")

\* C24's case: the flag is set, the coordinator is in the join, and a probe
\* that was dispatched before is still in flight
C24_Witness ==
    /\ terminate /\ pc = "join"
    /\ \E i \in 1..MaxTasks : InFlight(tasks[i]) /\ tasks[i].pc = "peers"

\* C25: a store error that is not SQLITE_BUSY fails the call that raised
\* it and nothing else: after such an error in the coordinator's own
\* iteration, as after one in a worker, the coordinator is still in its
\* loop, so main has not returned the error.
C25_Rule ==
    (last'.op = "error" /\ last' # last) => pc' \in {"iterate", "slept", "join"}

C25_StoreErrorIsNotFatal == [][C25_Rule]_vars /\ [](pc # "failed")

\* the call a first line asks for
VerdictCall(out) ==
    CASE out = << >> -> "mark_dead"
      [] FirstState(out, "alive") -> "mark_alive"
      [] FirstState(out, "moving") -> "reschedule"
      [] FirstState(out, "moved") -> "mark_moved"
      [] OTHER -> IF Head(out).tag = "peer" THEN "mark_dead" ELSE "reschedule"

\* C26: SQLITE_BUSY is retried until the call goes through: no store call of
\* a worker or of the coordinator has a busy error as its result, and the
\* call that a probe's first line asks for is among the calls the probe has
\* committed when it ends without a panic.
C26_BusyIsRetried ==
    /\ last.op = "busy" => last.pre \in {"iterate", "slept"}
    /\ \A i \in 1..MaxTasks :
          /\ tasks[i].result # "busy"
          /\ (Over(tasks[i]) /\ tasks[i].result # "panic") =>
                VerdictCall(tasks[i].out) \in Applied(tasks[i])

\* C27: a panic in a probe stays in its task. The step that panics changes
\* nothing in the store, in the coordinator or in another task, and leaves
\* the task with its handle still to be released; the release then frees
\* the slot and leaves the probe's instance with check_started NULL and a
\* next_check_datetime, so the instance can be picked and dispatched again.
C27_Rule(i) ==
    LET id == IdOf(instances, tasks[i].host) IN
    /\ (tasks'[i].result = "panic" /\ tasks[i].result # "panic") =>
          /\ InFlight(tasks[i]) /\ tasks'[i].pc = "drop"
          /\ tasks'[i].host = tasks[i].host
          /\ \A j \in 1..MaxTasks : j # i => tasks'[j] = tasks[j]
          /\ UNCHANGED <<store, pc, picked, time_to_generate_a_list, terminate>>
    /\ (tasks[i].result = "panic" /\ tasks'[i] # tasks[i]) =>
          /\ tasks'[i] = Idle
          /\ instances'[id].check_started = NULL
          /\ instances'[id].next_check_datetime # NULL
          /\ UNCHANGED <<pc, picked, time_to_generate_a_list, terminate>>

C27_PanicStaysInTask == [][\A i \in 1..MaxTasks : C27_Rule(i)]_vars

\* C27's case: the first probe panicked and has ended; its slot is free
\* again, a second probe can be dispatched, and the instance has a next
\* check and no mark
C27_Witness ==
    /\ last.op = "finish_checking" /\ last.pre = "panic"
    /\ nops = 1 /\ FreeSlots = 1..MaxTasks
    /\ LET inst == instances[IdOf(instances, last.host)] IN
       inst.check_started = NULL /\ inst.next_check_datetime > now

\* C28: after any sequence of mutators every instance has a
\* next_check_datetime, and a verdict (mark_alive, mark_dead, mark_moved)
\* that succeeds assigns its instance last_check_datetime = now and, in the
\* same transaction, a next_check_datetime strictly later than it.
C28_Scheduled ==
    \A id \in DOMAIN instances : instances[id].next_check_datetime # NULL

C28_Rule ==
    (last'.op \in {"mark_alive", "mark_dead", "mark_moved"} /\ last'.ok) =>
       LET inst == instances'[IdOf(instances', last'.host)] IN
       /\ inst.last_check_datetime = now
       /\ inst.next_check_datetime > inst.last_check_datetime

Version(rel) ==
    CASE rel = "http://nodeinfo.diaspora.software/ns/schema/1.0" -> <<1, 0>>
      [] rel = "http://nodeinfo.diaspora.software/ns/schema/1.1" -> <<1, 1>>
      [] rel = "http://nodeinfo.diaspora.software/ns/schema/2.0" -> <<2, 0>>
      [] rel = "http://nodeinfo.diaspora.software/ns/schema/2.1" -> <<2, 1>>
      [] OTHER -> << >>

NotNewer(v, w) == v[1] < w[1] \/ (v[1] = w[1] /\ v[2] <= w[2])

\* the links of a pointer whose rel is supported, and among them the hrefs of
\* those with the highest version
Supported(links) == {k \in DOMAIN links : Version(links[k].rel) # << >>}
Highest(links) ==
    {links[k].href : k \in {k \in Supported(links) :
        \A j \in Supported(links) :
           NotNewer(Version(links[j].rel), Version(links[k].rel))}}

Reversed(links) == [k \in DOMAIN links |-> links[Len(links) + 1 - k]]

\* C29: pick_highest_supported_nodeinfo_version returns None exactly when no
\* link of the pointer has one of the four supported rels, and otherwise the
\* href of a link whose rel is the highest supported version in the pointer
\* (1.0 < 1.1 < 2.0 < 2.1); the same holds of the pointer with its links in
\* the reverse order, which has the same links and so the same highest ones.
C29_PicksHighestSupported ==
    nodeinfo_url # << >> =>
       LET url == nodeinfo_url[1]
           back == pick_highest_supported_nodeinfo_version(
                       [links |-> Reversed(pointer.links)])
       IN
       /\ url.some <=> Supported(pointer.links) # {}
       /\ url.some => url.href \in Highest(pointer.links)
       /\ back.some <=> url.some
       /\ back.some => back.href \in Highest(pointer.links)

\* C29's case: the highest supported schema comes first, a lower one and an
\* unsupported higher one follow it, and the first link's href was picked
C29_Witness ==
    /\ nodeinfo_url = <<Some("first")>>
    /\ pointer.links =
          << [rel |-> "http://nodeinfo.diaspora.software/ns/schema/2.0",
              href |-> "first"],
             [rel |-> "http://nodeinfo.diaspora.software/ns/schema/1.1",
              href |-> "second"],
             [rel |-> "http://nodeinfo.diaspora.software/ns/schema/2.2",
              href |-> "second"] >>

\* the slots that a step turns into a probe of a host
NewProbes == {i \in 1..MaxTasks : tasks'[i].kind = "checker" /\ tasks[i].kind # "checker"}

\* C30: a step of the coordinator that gives a probe of a host to the pool is
\* the end of an iteration whose reschedule of that host has committed: the
\* iteration stood after its sleep, the call was reschedule of the host that
\* was picked, it returned Ok and the host's next check is in the store and
\* later than now; the step gives one probe and ends the iteration. A step
\* in which a store call of the iteration ends with an error, SQLITE_BUSY
\* (the iteration is run again) or another, gives no probe to the pool.
C30_Rule ==
    /\ NewProbes # {} =>
          /\ pc = "slept" /\ pc' \in {"iterate", "join"}
          /\ last'.op = "reschedule" /\ last'.ok /\ last'.host = picked.host
          /\ Cardinality(NewProbes) = 1
          /\ \A i \in NewProbes : tasks'[i] = CheckerTask(picked.host)
          /\ \A i \in 1..MaxTasks : i \notin NewProbes => tasks'[i] = tasks[i]
          /\ Known(instances', picked.host)
          /\ instances'[IdOf(instances', picked.host)].next_check_datetime > now
    /\ (last' # last /\ ~last'.ok) => NewProbes = {}

C30_RescheduleBeforeDispatch == [][C30_Rule]_vars

\* C30's case: a second iteration has rescheduled the host it picked and
\* handed its probe to the pool, which has not started it yet
C30_Witness ==
    /\ last.op = "reschedule" /\ last.ok /\ last.host = picked.host
    /\ pc = "iterate" /\ nops = 2
    /\ \E i \in 1..MaxTasks : tasks[i] = CheckerTask(picked.host)
    /\ instances[IdOf(instances, picked.host)].next_check_datetime > now

\* C31: the coordinator dispatches in non-decreasing order of the check
\* times it picked: the check time a dispatched host was picked with is not
\* earlier than the check time of the pick dispatched before it, whatever
\* the workers wrote while the coordinator slept.
C31_Rule ==
    (pc = "slept" /\ nops' = nops + 1 /\ last'.ok /\ dispatched # NULL) =>
       dispatched <= picked.check_time

C31_DispatchInCheckTimeOrder == [][C31_Rule]_vars

\* C32: when run_checker has returned for a subprocess it spawned, the
\* subprocess has been reaped; it was sent a kill if the first wait found it
\* running; every failure on the kill path was logged; and what is returned
\* is the reader's result.
C32_ChildIsReaped ==
    \A i \in 1..MaxTasks :
       (child[i].pc = "returned" /\ child[i].proc # "none") =>
          /\ child[i].proc = "reaped"
          /\ child[i].logged = child[i].failed
          /\ child[i].returned = child[i].result

\* C33: the bounded helper calls f at most Attempts times in all; either
\* helper returns at the first Ok and at the first error that is not busy,
\* with that outcome; and only the bounded helper returns a busy error, when
\* all its Attempts calls were busy.
C33_AtMostHundredCalls ==
    /\ retry.helper = "bounded" => retry.calls <= Attempts
    /\ retry.returned = "busy" => retry.helper = "bounded" /\ retry.calls = Attempts
    /\ retry.pc = "returned" <=> retry.returned \in Outcomes

\* the slots that a step gives the list generator, and the slots in which a
\* step ends it
NewLists == {i \in 1..MaxTasks : tasks'[i].kind = "list" /\ tasks[i].kind # "list"}
EndedLists == {i \in 1..MaxTasks : tasks[i].kind = "list" /\ tasks'[i].kind # "list"}

\* C34: a step gives the list generator to the pool only when the instant
\* time_to_generate_a_list has passed, and sets that instant six hours from
\* now; after the boot no other step changes the instant, a retry after a
\* busy error included, so that more than six hours lie between two
\* consecutive dispatches of the list generator. The step in which the list
\* generator ends, in whatever way, changes nothing of the coordinator.
C34_Rule ==
    /\ NewLists # {} =>
          /\ Cardinality(NewLists) = 1
          /\ time_to_generate_a_list < now
          /\ time_to_generate_a_list' = now + SixHours
    /\ (NewLists = {} /\ pc # "off") => UNCHANGED time_to_generate_a_list
    /\ EndedLists # {} =>
          /\ UNCHANGED <<pc, picked, time_to_generate_a_list, terminate, dispatched>>
          /\ \A i \in 1..MaxTasks : i \notin EndedLists => tasks'[i] = tasks[i]

C34_ListEverySixHours == [][C34_Rule]_vars

\* C34's case: the list generator was given to the pool a second time, with
\* its first run not ended yet, in an iteration whose pick then failed with
\* a busy error; the next instant is six hours later
C34_Witness ==
    /\ \A i \in 1..MaxTasks : tasks[i] = ListTask
    /\ last.op = "busy" /\ last.pre = "iterate"
    /\ time_to_generate_a_list = now + SixHours

\* C35: reschedule_missed_checks at boot gives every instance whose
\* next_check_datetime is earlier than now a time drawn by
\* rand_datetime_today, later than now; it leaves the other instances, and
\* every instance's other columns and all rows of the side tables, as they
\* were; after it no instance has a next_check_datetime earlier than now.
C35_Rule ==
    (pc = "off" /\ last'.op = "reschedule_missed_checks") =>
       LET before == init(DB, now).instances IN
       /\ last'.ok
       /\ DOMAIN instances' = DOMAIN before
       /\ \A i \in DOMAIN before :
             /\ before[i].next_check_datetime < now =>
                   /\ instances'[i].next_check_datetime \in rand_datetime_today(now)
                   /\ instances'[i].next_check_datetime > now
                   /\ instances'[i].cadence = "today"
             /\ before[i].next_check_datetime >= now => instances'[i] = before[i]
             /\ [instances'[i] EXCEPT
                    !.next_check_datetime = before[i].next_check_datetime,
                    !.cadence = before[i].cadence] = before[i]
             /\ instances'[i].next_check_datetime >= now
       /\ UNCHANGED <<dying_state_data, moving_state_data, moved_state_data>>

C36_DispatchedAgain ==
    (nops = 1) ~>
       (nops = 2 /\ last.op = "reschedule" /\ last.ok /\ last.host = Seed
                 /\ \E i \in 1..MaxTasks : tasks[i] = CheckerTask(Seed))

\* C36's case: the host is dispatched a second time after the process was
\* killed with the first probe in flight and started again: the mark of the
\* lost probe is still on the instance
C36_Witness ==
    /\ nops = 2 /\ last.op = "reschedule" /\ last.ok /\ last.host = Seed
    /\ tasks[1] = CheckerTask(Seed) /\ tasks[2] = Idle
    /\ instances[IdOf(instances, Seed)].check_started # NULL

\* C37: an instance that receives DEAD verdicts and nothing else is promoted
\* to Dead, with failed_checks_count one higher at every verdict until then,
\* and an instance that receives MOVED verdicts to one target and nothing
\* else is promoted to Moved, however far apart the verdicts are: after k
\* DEAD verdicts a Discovered instance is Dying with failed_checks_count = k
\* for k = 1..7 and is Dead from the eighth on, and after the ninth MOVED
\* verdict it is Moved.
C37_EventuallyPromoted ==
    LET id == IdOf(instances, run.host)
        inst == instances[id]
    IN
    /\ (run.op = "mark_dead" /\ run.from = "Discovered") =>
          /\ run.times \in 1..7 =>
                /\ inst.state = "Dying"
                /\ RowOf(dying_state_data, id).failed_checks_count = run.times
          /\ run.times >= 8 => inst.state = "Dead"
    /\ (run.op = "mark_moved" /\ run.from = "Discovered" /\ run.times >= 9) =>
          inst.state = "Moved"

\* C38: when the coordinator gives the probe of a host to the pool, the
\* next_check_datetime that the store holds for that host at that moment is
\* not later than now, whatever the workers wrote between the pick and the
\* dispatch.
C38_Rule ==
    NewProbes # {} =>
       instances[IdOf(instances, picked.host)].next_check_datetime <= now

C38_NoEarlyProbe == [][C38_Rule]_vars

\* the mutators, as the op of a call
Mutators == {"mark_alive", "mark_dead", "mark_moved", "add_instance", "reschedule"}

\* C39: a call of a mutator that returns an error leaves every table as it
\* was before the call, whether it failed before its first write (unknown
\* host, unknown redirect target) or after some of its writes.
C39_Rule ==
    (last'.op \in Mutators /\ ~last'.ok) => store' = store

C39_ErrorLeavesStoreUnchanged == [][C39_Rule]_vars

\* a mark_moved of a Dying instance has failed after its DELETE FROM
\* dying_state_data, its INSERT OR IGNORE and its INSERT INTO
\* moving_state_data; the target it had inserted is not in the store
C39_Witness ==
    /\ last.op = "mark_moved" /\ ~last.ok /\ last.pre = "Dying"
    /\ run.op = "rollback" /\ run.times = 3
    /\ ~Known(instances, last.to)

\* the writes listed for a mutator end in the store that the mutator commits
WritesAreTheMutator ==
    \A h, to \in HostNames :
       \A today \in rand_datetime_today(now), daily \in rand_datetime_daily(now),
          weekly \in rand_datetime_weekly(now) :
         LET Same(res, writes) ==
                 res.ok => (writes # << >> /\ writes[Len(writes)] = res.db)
         IN /\ Same(mark_alive(DB, h, now, daily),
                    Writes_mark_alive(DB, h, now, daily))
            /\ Same(mark_dead(DB, h, now, daily, weekly),
                    Writes_mark_dead(DB, h, now, daily, weekly))
            /\ Same(mark_moved(DB, h, to, now, today, daily, weekly),
                    Writes_mark_moved(DB, h, to, now, today, daily, weekly))

\* the rows that instance id has in the three side tables
SideRowsOf(dying, moving, moved, id) ==
    <<RowsOf(dying, id), RowsOf(moving, id), RowsOf(moved, id)>>

\* C40: a call of mark_alive, mark_dead, mark_moved or reschedule on h
\* leaves the row and the side-table rows of every other instance as they
\* were and deletes no instance; the only row it may add is the target of
\* mark_moved, as a Discovered instance never checked.
C40_Rule ==
    (last'.op \in {"mark_alive", "mark_dead", "mark_moved", "reschedule"}) =>
       /\ Len(instances') >= Len(instances)
       /\ \A i \in DOMAIN instances :
             /\ instances'[i].hostname = instances[i].hostname
             /\ instances[i].hostname # last'.host =>
                   /\ instances'[i] = instances[i]
                   /\ SideRowsOf(dying_state_data', moving_state_data',
                                 moved_state_data', i)
                        = SideRowsOf(dying_state_data, moving_state_data,
                                     moved_state_data, i)
       /\ \A i \in DOMAIN instances' \ DOMAIN instances :
             /\ last'.op = "mark_moved"
             /\ i = Len(instances) + 1
             /\ instances'[i].hostname = last'.to
             /\ instances'[i].state = "Discovered"
             /\ instances'[i].last_check_datetime = NULL
             /\ instances'[i].check_started = NULL
             /\ SideRowsOf(dying_state_data', moving_state_data',
                           moved_state_data', i) = <<{}, {}, {}>>

C40_OtherInstancesUnchanged == [][C40_Rule]_vars

\* mark_moved has been applied with a target that was in the store before,
\* checked and with a dying_state_data row of its own
C40_Witness ==
    /\ last.op = "mark_moved" /\ last.ok /\ last.to # last.host
    /\ last.pre \notin {"Moving", "Moved"}
    /\ Known(instances, last.to)
    /\ instances[IdOf(instances, last.to)].state = "Dying"
    /\ HasRow(dying_state_data, IdOf(instances, last.to))

====
